---- MODULE Spec2Model ----
(***************************************************************************)
(* csv-chat: the generate -> validate -> execute -> classify pipeline of   *)
(* the chat route, the static code validator (sanitizeCode) with the       *)
(* module-level regular expressions it tests, and the chart recommender.   *)
(*                                                                         *)
(* A code text is a sequence of lexical tokens: maximal runs of word       *)
(* characters (one token per word), and one token per whitespace or        *)
(* punctuation character.  Every string has exactly one such tokenization, *)
(* so the regular expressions of the source are evaluated on it exactly:   *)
(* \b is a token border of a word, \s+ a run of whitespace tokens, and a   *)
(* character offset is the sum of the lengths of the tokens before it.     *)
(***************************************************************************)
EXTENDS Integers, Sequences, FiniteSets, TLC

(***************************************************************************)
(* Bounds                                                                  *)
(***************************************************************************)
\* number of statement fragments a generated code text is made of
MaxStmts == 2

(***************************************************************************)
(* Strings as token sequences                                              *)
(***************************************************************************)
Whitespace == {" ", "\n"}

Punctuation == {"(", ")", "[", "]", "{", "}", ".", ",", "="}

IsSpace(t) == t \in Whitespace

IsWord(t) == t \notin Whitespace /\ t \notin Punctuation

\* String.prototype.toLowerCase on the words of the vocabulary
Lower(w) ==
  CASE w = "OS" -> "os"
    [] w = "DataFrame" -> "dataframe"
    [] w = "Import" -> "import"
    [] OTHER -> w

\* the character offset at which token i starts (i may be Len(s) + 1)
Off(s, i) ==
  LET RECURSIVE CharLen(_)
      \* String.prototype.length
      CharLen(t) == IF t = <<>> THEN 0 ELSE Len(Head(t)) + CharLen(Tail(t))
  IN CharLen(SubSeq(s, 1, i - 1))

RECURSIVE TrimStart(_)
TrimStart(s) ==
  IF s # <<>> /\ IsSpace(Head(s)) THEN TrimStart(Tail(s)) ELSE s

RECURSIVE TrimEnd(_)
TrimEnd(s) ==
  IF s # <<>> /\ IsSpace(s[Len(s)]) THEN TrimEnd(SubSeq(s, 1, Len(s) - 1)) ELSE s

\* String.prototype.trim
Trim(s) == TrimEnd(TrimStart(s))

RECURSIVE SkipSpace(_, _)
\* the index of the first token at or after i that is not whitespace (\s*)
SkipSpace(s, i) ==
  IF i <= Len(s) /\ IsSpace(s[i]) THEN SkipSpace(s, i + 1) ELSE i

TokAt(s, i) == IF i >= 1 /\ i <= Len(s) THEN s[i] ELSE ""

\* the word at i is, ignoring case, exactly w
WordIs(s, i, w) == IsWord(TokAt(s, i)) /\ TokAt(s, i) # "" /\ Lower(TokAt(s, i)) = w

CountTok(s, t) == Cardinality({i \in 1..Len(s) : s[i] = t})

(***************************************************************************)
(* Code texts: up to MaxStmts statement fragments, concatenated            *)
(***************************************************************************)
Fragments ==
  { <<"import", " ", "pandas", "\n">>,
    <<"import", " ", "json", ",", " ", "random", "\n">>,
    <<"from", " ", "pandas", " ", "import", " ", "DataFrame", "\n">>,
    <<"import", " ", "socket", "\n">>,
    <<"Import", " ", "OS", "\n">>,
    <<"eval", " ", "(", "x", ")", "\n">>,
    <<"print", "(", "json", ".", "dumps", "(", "result", ")", ")">>,
    <<"result", " ", "=", " ", "df", "[", "[", "\n">>,
    <<" ">> }

RECURSIVE CodesOf(_)
CodesOf(n) ==
  IF n = 0 THEN {<<>>}
  ELSE CodesOf(n - 1) \cup {c \o f : c \in CodesOf(n - 1), f \in Fragments}

\* no two word tokens are adjacent (they would be one word)
Codes ==
  LET WellTokenized(s) ==
        \A i \in 1..(Len(s) - 1) : ~(IsWord(s[i]) /\ IsWord(s[i + 1]))
  IN {c \in CodesOf(MaxStmts) : WellTokenized(c)}

\* the column names of the dataset
ColumnLists == {<<"region", "sales">>}

(***************************************************************************)
(* BLOCKED_PATTERNS: the 27 module-level regular expressions, all /gi.     *)
(* kind "wordDot" is \bW\. ; "word" is \bW\b ; "call" is \bW\s*\( ;        *)
(* "stmt" is KW\s+W\b (no leading \b) ; "dotCall" is \.W\s*\(              *)
(***************************************************************************)
BLOCKED_PATTERNS ==
  << [kind |-> "wordDot", kw |-> "", w |-> "os", source |-> "\\bos\\."],
     [kind |-> "wordDot", kw |-> "", w |-> "sys", source |-> "\\bsys\\."],
     [kind |-> "word", kw |-> "", w |-> "subprocess", source |-> "\\bsubprocess\\b"],
     [kind |-> "word", kw |-> "", w |-> "__import__", source |-> "\\b__import__\\b"],
     [kind |-> "call", kw |-> "", w |-> "eval", source |-> "\\beval\\s*\\("],
     [kind |-> "call", kw |-> "", w |-> "exec", source |-> "\\bexec\\s*\\("],
     [kind |-> "call", kw |-> "", w |-> "compile", source |-> "\\bcompile\\s*\\("],
     [kind |-> "call", kw |-> "", w |-> "globals", source |-> "\\bglobals\\s*\\("],
     [kind |-> "call", kw |-> "", w |-> "locals", source |-> "\\blocals\\s*\\("],
     [kind |-> "word", kw |-> "", w |-> "__builtins__", source |-> "\\b__builtins__\\b"],
     [kind |-> "call", kw |-> "", w |-> "open", source |-> "\\bopen\\s*\\("],
     [kind |-> "word", kw |-> "", w |-> "pathlib", source |-> "\\bpathlib\\b"],
     [kind |-> "word", kw |-> "", w |-> "shutil", source |-> "\\bshutil\\b"],
     [kind |-> "word", kw |-> "", w |-> "requests", source |-> "\\brequests\\b"],
     [kind |-> "word", kw |-> "", w |-> "urllib", source |-> "\\burllib\\b"],
     [kind |-> "word", kw |-> "", w |-> "socket", source |-> "\\bsocket\\b"],
     [kind |-> "stmt", kw |-> "import", w |-> "os", source |-> "import\\s+os\\b"],
     [kind |-> "stmt", kw |-> "import", w |-> "sys", source |-> "import\\s+sys\\b"],
     [kind |-> "stmt", kw |-> "import", w |-> "subprocess", source |-> "import\\s+subprocess\\b"],
     [kind |-> "stmt", kw |-> "from", w |-> "os", source |-> "from\\s+os\\b"],
     [kind |-> "stmt", kw |-> "from", w |-> "sys", source |-> "from\\s+sys\\b"],
     [kind |-> "stmt", kw |-> "import", w |-> "pickle", source |-> "import\\s+pickle\\b"],
     [kind |-> "word", kw |-> "", w |-> "matplotlib", source |-> "\\bmatplotlib\\b"],
     [kind |-> "word", kw |-> "", w |-> "seaborn", source |-> "\\bseaborn\\b"],
     [kind |-> "dotCall", kw |-> "", w |-> "plot", source |-> "\\.plot\\s*\\("],
     [kind |-> "dotCall", kw |-> "", w |-> "show", source |-> "\\.show\\s*\\("],
     [kind |-> "wordDot", kw |-> "", w |-> "plt", source |-> "\\bplt\\."] >>

PatternIds == 1..Len(BLOCKED_PATTERNS)

NoMatch == [ok |-> FALSE, start |-> 0, end |-> 0]

\* the match of pattern p that starts in token i of s, if there is one
MatchAt(p, s, i) ==
  CASE p.kind = "wordDot" ->
         IF WordIs(s, i, p.w) /\ TokAt(s, i + 1) = "."
         THEN [ok |-> TRUE, start |-> Off(s, i), end |-> Off(s, i + 2)]
         ELSE NoMatch
    [] p.kind = "word" ->
         IF WordIs(s, i, p.w)
         THEN [ok |-> TRUE, start |-> Off(s, i), end |-> Off(s, i + 1)]
         ELSE NoMatch
    [] p.kind = "call" ->
         IF WordIs(s, i, p.w) /\ TokAt(s, SkipSpace(s, i + 1)) = "("
         THEN [ok |-> TRUE, start |-> Off(s, i),
               end |-> Off(s, SkipSpace(s, i + 1) + 1)]
         ELSE NoMatch
    [] p.kind = "stmt" ->
         IF /\ WordIs(s, i, p.kw)
            /\ IsSpace(TokAt(s, i + 1))
            /\ WordIs(s, SkipSpace(s, i + 1), p.w)
         THEN [ok |-> TRUE, start |-> Off(s, i + 1) - Len(p.kw),
               end |-> Off(s, SkipSpace(s, i + 1) + 1)]
         ELSE NoMatch
    [] p.kind = "dotCall" ->
         IF /\ TokAt(s, i) = "."
            /\ WordIs(s, i + 1, p.w)
            /\ TokAt(s, SkipSpace(s, i + 2)) = "("
         THEN [ok |-> TRUE, start |-> Off(s, i),
               end |-> Off(s, SkipSpace(s, i + 2) + 1)]
         ELSE NoMatch

RECURSIVE MatchesFrom(_, _, _)
\* every match of pattern p in s that starts in token i or later, in order
MatchesFrom(p, s, i) ==
  IF i > Len(s) THEN <<>>
  ELSE (IF MatchAt(p, s, i).ok THEN <<MatchAt(p, s, i)>> ELSE <<>>)
       \o MatchesFrom(p, s, i + 1)

\* the matches of every pattern in the trimmed code texts, computed once
MatchMemo ==
  [s \in {Trim(c) : c \in Codes} |->
     [p \in 1..Len(BLOCKED_PATTERNS) |-> MatchesFrom(BLOCKED_PATTERNS[p], s, 1)]]

\* for every pattern, its matches in s
AllMatches(s) ==
  IF s \in DOMAIN MatchMemo THEN MatchMemo[s]
  ELSE [p \in 1..Len(BLOCKED_PATTERNS) |-> MatchesFrom(BLOCKED_PATTERNS[p], s, 1)]

RECURSIVE FirstFrom(_, _)
\* the first match of ms that starts at or after character offset from
FirstFrom(ms, from) ==
  IF ms = <<>> THEN NoMatch
  ELSE IF Head(ms).start >= from THEN Head(ms) ELSE FirstFrom(Tail(ms), from)

\* RegExp.prototype.test of a global regular expression whose matches in the
\* tested string are ms and whose lastIndex is from: the search starts at
\* from, a match leaves lastIndex at its end and a failure resets it to 0
RegExpTest(ms, from) ==
  LET m == FirstFrom(ms, from)
  IN IF m.ok
     THEN [matched |-> TRUE, lastIndex |-> m.end]
     ELSE [matched |-> FALSE, lastIndex |-> 0]

(***************************************************************************)
(* sanitizeCode                                                            *)
(***************************************************************************)
ALLOWED_IMPORTS == <<"pandas", "numpy", "json", "pd", "np", "math">>

Includes(seq, x) == \E i \in 1..Len(seq) : seq[i] = x

\* the return statement of the empty-code path
EmptyCodeResult ==
  [isValid |-> FALSE,
   sanitizedCode |-> <<>>,
   errors |-> <<[msg |-> "Empty code provided", arg |-> ""]>>,
   warnings |-> <<>>]

RECURSIVE BlockedErrors(_, _)
\* one error per pattern whose test succeeded, in the order of the patterns
BlockedErrors(tests, p) ==
  IF p > Len(BLOCKED_PATTERNS) THEN <<>>
  ELSE (IF tests[p].matched
        THEN <<[msg |-> "Blocked pattern detected",
                arg |-> BLOCKED_PATTERNS[p].source]>>
        ELSE <<>>) \o BlockedErrors(tests, p + 1)

\* from\s+(\w+) | import\s+(\w+) matches in token i: the keyword, whitespace
\* and a whole word
ImportMatchAt(s, i) ==
  /\ (WordIs(s, i, "from") \/ WordIs(s, i, "import"))
  /\ IsSpace(TokAt(s, i + 1))
  /\ SkipSpace(s, i + 1) <= Len(s)
  /\ IsWord(s[SkipSpace(s, i + 1)])

RECURSIVE ImportMatches(_, _)
\* String.prototype.match with the global flag: every non-overlapping match
\* from left to right; each is reduced to its module name
ImportMatches(s, i) ==
  IF i > Len(s) THEN <<>>
  ELSE IF ImportMatchAt(s, i)
       THEN <<s[SkipSpace(s, i + 1)]>> \o ImportMatches(s, SkipSpace(s, i + 1) + 1)
       ELSE ImportMatches(s, i + 1)

RECURSIVE ImportErrors(_)
ImportErrors(mods) ==
  IF mods = <<>> THEN <<>>
  ELSE (IF ~Includes(ALLOWED_IMPORTS, Lower(Head(mods)))
        THEN <<[msg |-> "Disallowed import", arg |-> Head(mods)]>>
        ELSE <<>>) \o ImportErrors(Tail(mods))

\* /print\s*\(\s*json\.dumps\s*\(/i
HasOutputPattern(s) ==
  \E i \in 1..Len(s) :
    LET j == SkipSpace(s, i + 1)
        k == SkipSpace(s, j + 1)
    IN /\ WordIs(s, i, "print")
       /\ TokAt(s, j) = "("
       /\ WordIs(s, k, "json")
       /\ TokAt(s, k + 1) = "."
       /\ WordIs(s, k + 2, "dumps")
       /\ TokAt(s, SkipSpace(s, k + 3)) = "("

\* /df\s*\[\s*\[/
HasDoubleBracket(s) ==
  \E i \in 1..Len(s) :
    LET j == SkipSpace(s, i + 1)
    IN /\ TokAt(s, i) = "df"
       /\ TokAt(s, j) = "["
       /\ TokAt(s, SkipSpace(s, j + 1)) = "["

balanceChecks ==
  << [open |-> "(", close |-> ")", name |-> "parentheses"],
     [open |-> "[", close |-> "]", name |-> "brackets"],
     [open |-> "{", close |-> "}", name |-> "braces"] >>

RECURSIVE BalanceWarnings(_, _)
BalanceWarnings(s, b) ==
  IF b > Len(balanceChecks) THEN <<>>
  ELSE (IF CountTok(s, balanceChecks[b].open) # CountTok(s, balanceChecks[b].close)
        THEN <<[msg |-> "Unbalanced", arg |-> balanceChecks[b].name,
                open |-> CountTok(s, balanceChecks[b].open),
                close |-> CountTok(s, balanceChecks[b].close)]>>
        ELSE <<>>) \o BalanceWarnings(s, b + 1)

Warnings(s) ==
  (IF ~HasOutputPattern(s)
   THEN <<[msg |-> "Code should output results using print(json.dumps(...))",
           arg |-> "", open |-> 0, close |-> 0]>>
   ELSE <<>>)
  \o BalanceWarnings(s, 1)
  \o (IF HasDoubleBracket(s)
      THEN <<[msg |-> "Detected double bracket access - ensure proper column selection",
              arg |-> "", open |-> 0, close |-> 0]>>
      ELSE <<>>)

\* the checks of the trimmed code texts that use no module state, computed once
StaticMemo ==
  [s \in {Trim(c) : c \in Codes} |->
     [importErrors |-> ImportErrors(ImportMatches(s, 1)), warnings |-> Warnings(s)]]

StaticChecks(s) ==
  IF s \in DOMAIN StaticMemo THEN StaticMemo[s]
  ELSE [importErrors |-> ImportErrors(ImportMatches(s, 1)), warnings |-> Warnings(s)]

IsValidStrict(errors, warnings) == Len(errors) = 0 /\ Len(warnings) = 0

\* isValid: errors.length === 0
IsValidOf(errors, warnings) == Len(errors) = 0

\* sanitizeCode(code, availableColumns), called when the lastIndex fields of
\* the module-level patterns are lastIndex; returns the SanitizationResult
\* and the lastIndex fields the call leaves behind
sanitizeCode(code, availableColumns, lastIndex) ==
  LET sanitizedCode == Trim(code)
      matches == AllMatches(sanitizedCode)
      static == StaticChecks(sanitizedCode)
      tests == [p \in PatternIds |-> RegExpTest(matches[p], lastIndex[p])]
      errors == BlockedErrors(tests, 1) \o static.importErrors
      warnings == static.warnings
  IN IF sanitizedCode = <<>>
     THEN [result |-> EmptyCodeResult, lastIndex |-> lastIndex]
     ELSE [result |-> [isValid |-> IsValidOf(errors, warnings),
                       sanitizedCode |-> sanitizedCode,
                       errors |-> errors,
                       warnings |-> warnings],
           lastIndex |-> [p \in PatternIds |-> tests[p].lastIndex]]

(***************************************************************************)
(* JSON values (the parsed standard output of the executed code)           *)
(***************************************************************************)
Undefined == [t |-> "undefined"]

JNull == [t |-> "null"]

JNum(n) == [t |-> "number", n |-> n]

JStr(s) == [t |-> "string", s |-> s]

JBool(b) == [t |-> "boolean", b |-> b]

\* keys in insertion order, vals[i] the value of keys[i]
JObj(keys, vals) == [t |-> "object", keys |-> keys, vals |-> vals]

JArr(items) == [t |-> "array", items |-> items]

\* truthiness of a value
Truthy(v) ==
  CASE v.t \in {"null", "undefined"} -> FALSE
    [] v.t = "number" -> v.n # 0
    [] v.t = "string" -> v.s # ""
    [] v.t = "boolean" -> v.b
    [] OTHER -> TRUE

IndexOf(seq, x) ==
  IF Includes(seq, x)
  THEN CHOOSE i \in 1..Len(seq) : seq[i] = x /\ \A j \in 1..(i - 1) : seq[j] # x
  ELSE 0

\* Object.keys of an object or an array
ObjectKeys(v) ==
  CASE v.t = "object" -> v.keys
    [] v.t = "array" -> [i \in 1..Len(v.items) |-> ToString(i - 1)]
    [] OTHER -> <<>>

\* a property read on null or undefined raises a TypeError
ReadThrows(v) == v.t \in {"null", "undefined"}

\* v[k] for a value on which a property read does not raise
Get(v, k) ==
  CASE v.t = "object" ->
         IF Includes(v.keys, k) THEN v.vals[IndexOf(v.keys, k)] ELSE Undefined
    [] v.t = "array" ->
         IF Includes(ObjectKeys(v), k) THEN v.items[IndexOf(ObjectKeys(v), k)]
         ELSE Undefined
    [] OTHER -> Undefined

\* entry[k] = val: overwrite in place, or append the new key
ObjSet(obj, k, val) ==
  IF Includes(obj.keys, k)
  THEN [obj EXCEPT !.vals[IndexOf(obj.keys, k)] = val]
  ELSE [obj EXCEPT !.keys = Append(obj.keys, k), !.vals = Append(obj.vals, val)]

\* the numbers of the vocabulary
Numbers == {0, 1, 5, 7, 10, 15, 20, 42}

\* the strings of the vocabulary that Number() converts to a number
NumericStrings == {"", "2024"} \cup {ToString(n) : n \in Numbers}

\* /^\d{4}-\d{2}|^\d{2}\/\d{2}|^(jan|feb|...|dec)/i on the vocabulary
MapDatePattern(s) == s \in {"2024-01", "2024-02", "2024-01-15", "01/02/2024", "Jan", "Feb"}

\* /^\d{4}-\d{2}-\d{2}|^\d{2}\/\d{2}\/\d{4}/ on the vocabulary
RecordDatePattern(s) == s \in {"2024-01-15", "2024-02-15", "01/02/2024"}

\* /date|time|year|month/i on the vocabulary
DateNamePattern(s) == s \in {"date", "month", "year", "Month", "order_date", "timestamp"}

RECURSIVE ToStr(_)
\* String(v)
ToStr(v) ==
  CASE v.t = "number" -> ToString(v.n)
    [] v.t = "string" -> v.s
    [] v.t = "boolean" -> IF v.b THEN "true" ELSE "false"
    [] v.t = "null" -> "null"
    [] v.t = "undefined" -> "undefined"
    [] v.t = "object" -> "[object Object]"
    [] v.t = "array" ->
         IF v.items = <<>> THEN ""
         ELSE LET first == IF v.items[1].t \in {"null", "undefined"} THEN ""
                           ELSE ToStr(v.items[1])
              IN IF Len(v.items) = 1 THEN first
                 ELSE first \o "," \o ToStr(JArr(Tail(v.items)))

\* isNaN(Number(v))
NumberIsNaN(v) ==
  CASE v.t = "number" -> FALSE
    [] v.t = "string" -> v.s \notin NumericStrings
    [] v.t = "boolean" -> FALSE
    [] v.t = "null" -> FALSE
    [] v.t = "array" -> ToStr(v) \notin NumericStrings
    [] OTHER -> TRUE

(***************************************************************************)
(* The answer of the language model: a text of tokens.  A fence of three   *)
(* backticks is one token, a quote character is one token, so is every     *)
(* other punctuation character and every whitespace character, and so is   *)
(* every word.                                                             *)
(***************************************************************************)
\* the outcome of a call that raised
Threw == [threw |-> TRUE]

\* the token that stands for three backticks
Fence == "<fence>"

\* the index of the first token t at or after i, 0 when there is none
NextIndexOf(s, t, i) ==
  IF \E j \in i..Len(s) : s[j] = t
  THEN CHOOSE j \in i..Len(s) : s[j] = t /\ \A k \in i..(j - 1) : s[k] # t
  ELSE 0

NoCapture == [found |-> FALSE, capture |-> <<>>]

\* content.match(/```(?:tag)?\s*([\s\S]*?)```/i): the text between the first
\* fence, less the tag and the whitespace after it, and the next fence
FenceMatch(s, tag) ==
  LET fences == SelectSeq([i \in 1..Len(s) |-> i], LAMBDA i : s[i] = Fence)
      open == fences[1]
      close == fences[2]
      from == SkipSpace(s, IF Lower(TokAt(s, open + 1)) = tag THEN open + 2
                           ELSE open + 1)
  IN IF Len(fences) < 2 THEN NoCapture
     ELSE [found |-> TRUE, capture |-> SubSeq(s, from, close - 1)]

ParseError == [ok |-> FALSE]

Parsed(val, next) == [ok |-> TRUE, val |-> val, next |-> next]

\* a string literal that opens at the quote s[i]; a line break inside a
\* string literal is a syntax error
ParseString(s, i) ==
  LET close == NextIndexOf(s, "\"", i + 1)
  IN IF close = 0 \/ \E k \in (i + 1)..(close - 1) : s[k] = "\n" THEN ParseError
     ELSE Parsed(JStr(SubSeq(s, i + 1, close - 1)), close + 1)

RECURSIVE ParseValue(_, _)
RECURSIVE ParseMembers(_, _, _, _)
RECURSIVE ParseItems(_, _, _, _)
\* the items of an array literal from token i on, which is no whitespace
ParseItems(s, i, items, first) ==
  IF TokAt(s, i) = "]" THEN (IF first THEN Parsed(JArr(items), i + 1) ELSE ParseError)
  ELSE LET value == ParseValue(s, i)
           after == IF value.ok THEN SkipSpace(s, value.next) ELSE 0
           read == Append(items, value.val)
       IN IF ~value.ok THEN ParseError
          ELSE IF TokAt(s, after) = "]" THEN Parsed(JArr(read), after + 1)
          ELSE IF TokAt(s, after) = ","
          THEN ParseItems(s, SkipSpace(s, after + 1), read, FALSE)
          ELSE ParseError

\* the members of an object literal from token i on, which is no whitespace;
\* obj holds the members read so far
ParseMembers(s, i, obj, first) ==
  IF TokAt(s, i) = "}" THEN (IF first THEN Parsed(obj, i + 1) ELSE ParseError)
  ELSE IF TokAt(s, i) # "\"" THEN ParseError
  ELSE LET key == ParseString(s, i)
           colon == IF key.ok THEN SkipSpace(s, key.next) ELSE 0
           value == IF key.ok /\ TokAt(s, colon) = ":"
                    THEN ParseValue(s, colon + 1) ELSE ParseError
           after == IF value.ok THEN SkipSpace(s, value.next) ELSE 0
           read == ObjSet(obj, key.val.s, value.val)
       IN IF ~value.ok THEN ParseError
          ELSE IF TokAt(s, after) = "}" THEN Parsed(read, after + 1)
          ELSE IF TokAt(s, after) = ","
          THEN ParseMembers(s, SkipSpace(s, after + 1), read, FALSE)
          ELSE ParseError

\* one JSON value from token i on, after leading whitespace
ParseValue(s, i) ==
  LET j == SkipSpace(s, i)
  IN CASE TokAt(s, j) = "{" -> ParseMembers(s, SkipSpace(s, j + 1), JObj(<<>>, <<>>), TRUE)
       [] TokAt(s, j) = "[" -> ParseItems(s, SkipSpace(s, j + 1), <<>>, TRUE)
       [] TokAt(s, j) = "\"" -> ParseString(s, j)
       [] TokAt(s, j) = "true" -> Parsed(JBool(TRUE), j + 1)
       [] TokAt(s, j) = "false" -> Parsed(JBool(FALSE), j + 1)
       [] TokAt(s, j) = "null" -> Parsed(JNull, j + 1)
       [] OTHER -> ParseError

\* JSON.parse(s): a SyntaxError unless s is one JSON value
JSONparse(s) ==
  LET r == ParseValue(s, 1)
  IN IF r.ok /\ SkipSpace(s, r.next) > Len(s) THEN r ELSE ParseError

(***************************************************************************)
(* sanitizeJsonString: the replace rules of step 3, in the order of the    *)
(* chain                                                                   *)
(***************************************************************************)
ReplaceRules ==
  <<"True", "False", "None", "trailingComma", "quotedName", "afterColon",
    "afterComma", "afterBracket">>

\* the index of the last token of the rule's match that starts at i, 0 when
\* the pattern does not match there
MatchEnd(rule, s, i) ==
  LET \* the token the rule's pattern starts with
      lead == CASE rule \in {"True", "False", "None", "afterColon"} -> ":"
                [] rule \in {"trailingComma", "afterComma"} -> ","
                [] rule = "quotedName" -> "'"
                [] rule = "afterBracket" -> "["
      next == SkipSpace(s, i + 1)
      closing == NextIndexOf(s, "'", next + 1)
      name == NextIndexOf(s, "'", i + 1)
      colon == SkipSpace(s, name + 1)
  IN IF TokAt(s, i) # lead THEN 0
     ELSE CASE rule \in {"True", "False", "None"} ->
                 IF TokAt(s, next) = rule THEN next ELSE 0
            [] rule = "trailingComma" ->
                 IF TokAt(s, next) \in {"}", "]"} THEN next ELSE 0
            [] rule = "quotedName" ->
                 IF name # 0 /\ TokAt(s, colon) = ":" THEN colon ELSE 0
            [] OTHER ->
                 IF TokAt(s, next) = "'" THEN closing ELSE 0

\* the text that replaces the rule's match s[i..end]
Replacement(rule, s, i, end) ==
  LET next == SkipSpace(s, i + 1)
      name == NextIndexOf(s, "'", i + 1)
      Quoted(text) == <<"\"">> \o text \o <<"\"">>
  IN CASE rule = "True" -> <<":", " ", "true">>
       [] rule = "False" -> <<":", " ", "false">>
       [] rule = "None" -> <<":", " ", "null">>
       [] rule = "trailingComma" -> SubSeq(s, i + 1, end)
       [] rule = "quotedName" ->
            Quoted(SubSeq(s, i + 1, name - 1)) \o SubSeq(s, name + 1, end)
       [] rule = "afterColon" -> <<":", " ">> \o Quoted(SubSeq(s, next + 1, end - 1))
       [] rule = "afterComma" -> <<",", " ">> \o Quoted(SubSeq(s, next + 1, end - 1))
       [] rule = "afterBracket" -> <<"[">> \o Quoted(SubSeq(s, next + 1, end - 1))

RECURSIVE ReplaceAll(_, _, _)
\* s.replace(/rule/g, replacement) from token `from' on: the leftmost match,
\* then the matches after it
ReplaceAll(rule, s, from) ==
  LET starts == {i \in from..Len(s) : MatchEnd(rule, s, i) # 0}
      i == CHOOSE j \in starts : \A k \in starts : j <= k
      end == MatchEnd(rule, s, i)
  IN IF starts = {} THEN SubSeq(s, from, Len(s))
     ELSE SubSeq(s, from, i - 1) \o Replacement(rule, s, i, end)
            \o ReplaceAll(rule, s, end + 1)

sanitizeJsonString(raw) ==
  LET trimmed == Trim(raw)
      fenceMatch == FenceMatch(trimmed, "json")
      unfenced == IF fenceMatch.found THEN Trim(fenceMatch.capture) ELSE trimmed
      firstBrace == NextIndexOf(unfenced, "{", 1)
      closers == {j \in 1..Len(unfenced) : unfenced[j] = "}"}
      lastBrace == IF closers = {} THEN 0
                   ELSE CHOOSE j \in closers : \A k \in closers : j >= k
      braced == IF firstBrace # 0 /\ lastBrace # 0 /\ lastBrace > firstBrace
                THEN SubSeq(unfenced, firstBrace, lastBrace)
                ELSE unfenced
      RECURSIVE ReplaceChain(_, _)
      \* the rules from the n-th on, each applied to the result of the one before
      ReplaceChain(s, n) ==
        IF n > Len(ReplaceRules) THEN s
        ELSE ReplaceChain(ReplaceAll(ReplaceRules[n], s, 1), n + 1)
  \* the last replace of the chain returns its match unchanged
  IN ReplaceChain(braced, 1)

(***************************************************************************)
(* generatePythonCode: from the text of the answer to the generated code   *)
(***************************************************************************)
\* !v for a field of the parsed answer
Falsy(v) ==
  CASE v.t \in {"null", "undefined"} -> TRUE
    [] v.t = "string" -> v.s = <<>>
    [] v.t = "boolean" -> ~v.b
    [] OTHER -> FALSE

\* the parse gave an object with a summary and a code
HasSummaryAndCode(parsed) ==
  /\ parsed.ok
  /\ parsed.val.t = "object"
  /\ ~Falsy(Get(parsed.val, <<"summary">>))
  /\ ~Falsy(Get(parsed.val, <<"code">>))

\* content.match(/(import\s+[\s\S]*)/i): from the first import on
ImportMatch(content) ==
  LET starts == {i \in 1..Len(content) :
                   Lower(content[i]) = "import" /\ IsSpace(TokAt(content, i + 1))}
      i == CHOOSE j \in starts : \A k \in starts : j <= k
  IN IF starts = {} THEN NoCapture
     ELSE [found |-> TRUE, capture |-> SubSeq(content, i, Len(content))]

\* content.match(/^([^...{]+)(?=fence|{|import)/i): the longest text from the
\* start without a fence or a brace that a fence, a brace or an import follows
SummaryMatch(content) ==
  LET stops == {i \in 1..Len(content) : content[i] \in {Fence, "{"}}
      stop == IF stops = {} THEN Len(content) + 1
              ELSE CHOOSE j \in stops : \A k \in stops : j <= k
      imports == {i \in 2..(stop - 1) : Lower(content[i]) = "import"}
      import == CHOOSE j \in imports : \A k \in imports : j >= k
  IN IF stop = 1 THEN NoCapture
     ELSE IF stop <= Len(content)
     THEN [found |-> TRUE, capture |-> SubSeq(content, 1, stop - 1)]
     ELSE IF imports = {} THEN NoCapture
     ELSE [found |-> TRUE, capture |-> SubSeq(content, 1, import - 1)]

Generation(path, parsedResponse) ==
  LET Or(a, b) == IF Falsy(a) THEN b ELSE a
  IN [threw |-> FALSE, path |-> path,
      code |-> Or(Get(parsedResponse, <<"code">>), JStr(<<>>)),
      summary |-> Or(Get(parsedResponse, <<"summary">>),
                     JStr(<<"Analyzing", " ", "your", " ", "data">>)),
      explanation |-> Get(parsedResponse, <<"explanation">>)]

generatePythonCode(content) ==
  LET jsonMatch == FenceMatch(content, "json")
      jsonContent == IF jsonMatch.found THEN Trim(jsonMatch.capture) ELSE Trim(content)
      parsed == JSONparse(jsonContent)
      codeBlockMatch == FenceMatch(content, "python")
      importMatch == ImportMatch(content)
      summaryMatch == SummaryMatch(content)
      code == IF codeBlockMatch.found THEN Trim(codeBlockMatch.capture)
              ELSE IF importMatch.found THEN importMatch.capture
              ELSE content
      \* the object the try block left in parsedResponse
      left == IF parsed.ok /\ parsed.val.t = "object" THEN parsed.val
              ELSE JObj(<<>>, <<>>)
      withCode == ObjSet(left, <<"code">>, JStr(code))
      fallback == IF summaryMatch.found
                  THEN ObjSet(withCode, <<"summary">>, JStr(Trim(summaryMatch.capture)))
                  ELSE withCode
  IN IF HasSummaryAndCode(parsed) THEN Generation("parsed", parsed.val)
     \* reading a property of null raises inside the try block, and in the
     \* catch block so does the assignment to a property of null or of a
     \* primitive: that TypeError leaves the function
     ELSE IF parsed.ok /\ parsed.val.t \notin {"object", "array"} THEN Threw
     ELSE Generation("fallback", fallback)

(***************************************************************************)
(* Chart recommender: analyzeData, recommendChart                          *)
(***************************************************************************)
NoKey == "<undefined>"

\* seq[0], undefined when the array is empty
First(seq) == IF seq = <<>> THEN NoKey ELSE seq[1]

\* seq[1]
Second(seq) == IF Len(seq) < 2 THEN NoKey ELSE seq[2]

\* a || b on keys: undefined and the empty string are falsy
OrKey(a, b) == IF a = NoKey \/ a = "" THEN b ELSE a

EmptyAnalysis ==
  [threw |-> FALSE,
   isObject |-> FALSE, isArray |-> FALSE, isSingleValue |-> FALSE,
   isNumericMap |-> FALSE, isRecordArray |-> FALSE, isNumericArray |-> FALSE,
   isXYData |-> FALSE, isTimeSeries |-> FALSE,
   keyCount |-> 0, recordCount |-> 0,
   keys |-> <<>>, numericKeys |-> <<>>, dateKeys |-> <<>>]

\* data.slice(0, n)
Slice(items, n) == SubSeq(items, 1, IF Len(items) < n THEN Len(items) ELSE n)

analyzeObjectEveryDate(obj) ==
  LET keys == obj.keys
      base == [EmptyAnalysis EXCEPT !.isObject = TRUE, !.keys = keys,
                                    !.keyCount = Len(keys)]
      allNumeric == \A i \in 1..Len(keys) : obj.vals[i].t = "number"
      dateKeys == SelectSeq(keys, MapDatePattern)
  IN IF Len(keys) = 1 /\ keys[1] = "value"
     THEN [base EXCEPT !.isSingleValue = TRUE]
     ELSE IF Includes(keys, "error") THEN base
     ELSE IF allNumeric /\ Len(keys) > 1
     THEN IF dateKeys = keys
          THEN [base EXCEPT !.isNumericMap = TRUE, !.numericKeys = keys,
                            !.isTimeSeries = TRUE, !.dateKeys = dateKeys]
          ELSE [base EXCEPT !.isNumericMap = TRUE, !.numericKeys = keys]
     ELSE base

analyzeObject(obj) ==
  LET keys == obj.keys
      base == [EmptyAnalysis EXCEPT !.isObject = TRUE, !.keys = keys,
                                    !.keyCount = Len(keys)]
      allNumeric == \A i \in 1..Len(keys) : obj.vals[i].t = "number"
      dateKeys == SelectSeq(keys, MapDatePattern)
  IN IF Len(keys) = 1 /\ keys[1] = "value"
     THEN [base EXCEPT !.isSingleValue = TRUE]
     ELSE IF Includes(keys, "error") THEN base
     ELSE IF allNumeric /\ Len(keys) > 1
     THEN IF dateKeys # <<>>
          THEN [base EXCEPT !.isNumericMap = TRUE, !.numericKeys = keys,
                            !.isTimeSeries = TRUE, !.dateKeys = dateKeys]
          ELSE [base EXCEPT !.isNumericMap = TRUE, !.numericKeys = keys]
     ELSE base

analyzeArrayStrictNumbers(data) ==
  LET items == data.items
      base == [EmptyAnalysis EXCEPT !.isArray = TRUE, !.recordCount = Len(items)]
      first == items[1]
      keys == ObjectKeys(first)
      sample == Slice(items, 10)
      IsNumericKey(k) ==
        \A i \in 1..Len(sample) :
          LET v == Get(sample[i], k)
          IN v.t = "number"
      IsDateKey(k) ==
        \E i \in 1..Len(sample) :
          LET v == Get(sample[i], k)
          IN v.t = "string" /\ RecordDatePattern(v.s)
      dateKeys == SelectSeq(keys, IsDateKey)
  IN IF items = <<>> THEN base
     ELSE IF \A i \in 1..Len(items) : items[i].t = "number"
     THEN [base EXCEPT !.isNumericArray = TRUE]
     ELSE IF first.t # "object" THEN base
     \* sampleValues reads r[key] of every sampled element, for every key
     ELSE IF keys # <<>> /\ \E i \in 1..Len(sample) : ReadThrows(sample[i])
     THEN [base EXCEPT !.threw = TRUE]
     ELSE [base EXCEPT !.isRecordArray = TRUE, !.keys = keys,
                       !.keyCount = Len(keys),
                       !.numericKeys = SelectSeq(keys, IsNumericKey),
                       !.dateKeys = dateKeys,
                       !.isXYData = Includes(keys, "x") /\ Includes(keys, "y"),
                       !.isTimeSeries = dateKeys # <<>>]

analyzeArray(data) ==
  LET items == data.items
      base == [EmptyAnalysis EXCEPT !.isArray = TRUE, !.recordCount = Len(items)]
      first == items[1]
      keys == ObjectKeys(first)
      sample == Slice(items, 10)
      IsNumericKey(k) ==
        \A i \in 1..Len(sample) :
          LET v == Get(sample[i], k)
          IN v.t = "number" \/ (v.t = "string" /\ ~NumberIsNaN(v))
      IsDateKey(k) ==
        \E i \in 1..Len(sample) :
          LET v == Get(sample[i], k)
          IN v.t = "string" /\ RecordDatePattern(v.s)
      dateKeys == SelectSeq(keys, IsDateKey)
  IN IF items = <<>> THEN base
     ELSE IF \A i \in 1..Len(items) : items[i].t = "number"
     THEN [base EXCEPT !.isNumericArray = TRUE]
     ELSE IF first.t # "object" THEN base
     \* sampleValues reads r[key] of every sampled element, for every key
     ELSE IF keys # <<>> /\ \E i \in 1..Len(sample) : ReadThrows(sample[i])
     THEN [base EXCEPT !.threw = TRUE]
     ELSE [base EXCEPT !.isRecordArray = TRUE, !.keys = keys,
                       !.keyCount = Len(keys),
                       !.numericKeys = SelectSeq(keys, IsNumericKey),
                       !.dateKeys = dateKeys,
                       !.isXYData = Includes(keys, "x") /\ Includes(keys, "y"),
                       !.isTimeSeries = dateKeys # <<>>]

analyzeData(data) ==
  CASE data.t \in {"null", "undefined"} -> EmptyAnalysis
    [] data.t \in {"number", "string"} -> [EmptyAnalysis EXCEPT !.isSingleValue = TRUE]
    [] data.t = "object" -> analyzeObject(data)
    [] data.t = "array" -> analyzeArray(data)
    [] OTHER -> EmptyAnalysis

NoConfig == [xKey |-> NoKey, yKey |-> NoKey, nameKey |-> NoKey, valueKey |-> NoKey]

Recommendation(chartType, confidence, reason, config) ==
  [threw |-> FALSE, chartType |-> chartType, confidence |-> confidence,
   reason |-> reason, config |-> config]

NameValue == [NoConfig EXCEPT !.nameKey = "name", !.valueKey = "value"]

XY(x, y) == [NoConfig EXCEPT !.xKey = x, !.yKey = y]

recommendRecordArrayLineFirst(analysis) ==
  LET dateKey == First(analysis.dateKeys)
      NotDateKey(k) == k # dateKey
      valueKey == OrKey(First(SelectSeq(analysis.numericKeys, NotDateKey)),
                        First(analysis.numericKeys))
      IsStringKey(k) == ~Includes(analysis.numericKeys, k)
      stringKeys == SelectSeq(analysis.keys, IsStringKey)
  IN IF analysis.isTimeSeries /\ Len(analysis.numericKeys) > 0
     THEN Recommendation("line", "high",
            "Time series records with dates - line chart recommended",
            XY(dateKey, valueKey))
     ELSE IF analysis.isXYData
     THEN Recommendation("scatter", "high",
            "X/Y coordinate data - perfect for scatter plot", XY("x", "y"))
     ELSE IF /\ Len(stringKeys) >= 1
             /\ Len(analysis.numericKeys) >= 1
             /\ analysis.recordCount <= 50
     THEN Recommendation("bar", "high",
            "Category column (" \o stringKeys[1] \o ") with numeric values - bar chart",
            XY(stringKeys[1], analysis.numericKeys[1]))
     ELSE IF Len(stringKeys) = 0 /\ Len(analysis.numericKeys) > 0
     THEN Recommendation("table", "medium",
            "All numeric columns without category labels - showing as table (data may be missing group keys)",
            NoConfig)
     ELSE IF analysis.recordCount > 20 \/ analysis.keyCount > 4
     THEN Recommendation("table", "medium",
            "Large dataset (" \o ToString(analysis.recordCount) \o " rows, "
              \o ToString(analysis.keyCount) \o " columns) - table view best",
            NoConfig)
     ELSE IF Len(stringKeys) >= 1
     THEN Recommendation("bar", "low", "Array of records - attempting bar chart",
            XY(stringKeys[1],
               OrKey(First(analysis.numericKeys), Second(analysis.keys))))
     ELSE Recommendation("table", "low",
            "No suitable category column for chart - showing as table", NoConfig)

recommendRecordArray(analysis) ==
  LET dateKey == First(analysis.dateKeys)
      NotDateKey(k) == k # dateKey
      valueKey == OrKey(First(SelectSeq(analysis.numericKeys, NotDateKey)),
                        First(analysis.numericKeys))
      IsStringKey(k) == ~Includes(analysis.numericKeys, k)
      stringKeys == SelectSeq(analysis.keys, IsStringKey)
  IN IF analysis.isXYData
     THEN Recommendation("scatter", "high",
            "X/Y coordinate data - perfect for scatter plot", XY("x", "y"))
     ELSE IF analysis.isTimeSeries /\ Len(analysis.numericKeys) > 0
     THEN Recommendation("line", "high",
            "Time series records with dates - line chart recommended",
            XY(dateKey, valueKey))
     ELSE IF /\ Len(stringKeys) >= 1
             /\ Len(analysis.numericKeys) >= 1
             /\ analysis.recordCount <= 50
     THEN Recommendation("bar", "high",
            "Category column (" \o stringKeys[1] \o ") with numeric values - bar chart",
            XY(stringKeys[1], analysis.numericKeys[1]))
     ELSE IF Len(stringKeys) = 0 /\ Len(analysis.numericKeys) > 0
     THEN Recommendation("table", "medium",
            "All numeric columns without category labels - showing as table (data may be missing group keys)",
            NoConfig)
     ELSE IF analysis.recordCount > 20 \/ analysis.keyCount > 4
     THEN Recommendation("table", "medium",
            "Large dataset (" \o ToString(analysis.recordCount) \o " rows, "
              \o ToString(analysis.keyCount) \o " columns) - table view best",
            NoConfig)
     ELSE IF Len(stringKeys) >= 1
     THEN Recommendation("bar", "low", "Array of records - attempting bar chart",
            XY(stringKeys[1],
               OrKey(First(analysis.numericKeys), Second(analysis.keys))))
     ELSE Recommendation("table", "low",
            "No suitable category column for chart - showing as table", NoConfig)

recommendChart(data) ==
  LET analysis == analyzeData(data)
  IN IF analysis.threw THEN Threw
     ELSE IF ~analysis.isObject /\ ~analysis.isArray
     THEN IF analysis.isSingleValue
          THEN Recommendation("number", "high",
                 "Single numeric value - display as metric", NoConfig)
          ELSE Recommendation("table", "low", "Unknown data structure", NoConfig)
     ELSE IF analysis.isObject /\ Includes(analysis.keys, "error")
     THEN Recommendation("table", "high", "Error response - display as text", NoConfig)
     ELSE IF analysis.isSingleValue
     THEN Recommendation("number", "high",
            "Single value result - display as large number", NoConfig)
     ELSE IF analysis.isNumericMap
     THEN IF analysis.isTimeSeries
          THEN Recommendation("line", "high",
                 "Time series data detected (date keys with numeric values)", NameValue)
          ELSE IF analysis.keyCount <= 6
          THEN Recommendation("pie", "high",
                 ToString(analysis.keyCount) \o " categories - suitable for pie chart",
                 NameValue)
          ELSE Recommendation("bar", "high",
                 "Category to value mapping (" \o ToString(analysis.keyCount)
                   \o " categories) - ideal for bar chart", NameValue)
     ELSE IF analysis.isRecordArray THEN recommendRecordArray(analysis)
     ELSE IF analysis.isNumericArray
     THEN Recommendation("line", "medium",
            "Array of numbers - line chart for sequence", NoConfig)
     ELSE Recommendation("table", "low",
            "Complex or unrecognized data structure - showing as table", NoConfig)

(***************************************************************************)
(* normalizeDataForChart                                                   *)
(***************************************************************************)
NoSeries == <<NoKey>>

ReturnsNull == [threw |-> FALSE, isNull |-> TRUE]

ChartData(data, xKey, yKey, seriesKeys) ==
  [threw |-> FALSE, isNull |-> FALSE, data |-> data, xKey |-> xKey, yKey |-> yKey,
   seriesKeys |-> seriesKeys]

RECURSIVE NumberEntries(_, _)
\* Object.entries(obj).filter(v is a number).map({name, value})
NumberEntries(obj, i) ==
  IF i > Len(obj.keys) THEN <<>>
  ELSE (IF obj.vals[i].t = "number"
        THEN <<JObj(<<"name", "value">>, <<JStr(obj.keys[i]), obj.vals[i]>>)>>
        ELSE <<>>) \o NumberEntries(obj, i + 1)

normalizeObject(obj) ==
  IF Includes(obj.keys, "error") THEN ReturnsNull
  ELSE IF Len(obj.keys) = 1 /\ Includes(obj.keys, "value") THEN ReturnsNull
  ELSE IF NumberEntries(obj, 1) = <<>> THEN ReturnsNull
  ELSE ChartData(NumberEntries(obj, 1), "name", "value", NoSeries)

RECURSIVE EveryNumeric(_, _)
\* records.every(r => typeof r[k] === 'number' || !isNaN(Number(r[k]))):
\* stops at the first record that fails; reading r[k] of null raises
EveryNumeric(records, k) ==
  IF records = <<>> THEN "true"
  ELSE IF ReadThrows(Head(records)) THEN "throw"
  ELSE IF Get(Head(records), k).t = "number" \/ ~NumberIsNaN(Get(Head(records), k))
       THEN EveryNumeric(Tail(records), k)
       ELSE "false"

RECURSIVE PivotFirstWins(_, _, _, _, _)
PivotFirstWins(rows, dateKey, categoryKey, valueKey, acc) ==
  IF rows = <<>> THEN acc
  ELSE
    LET row == Head(rows)
        xVal == ToStr(Get(row, dateKey))
        series == ToStr(Get(row, categoryKey))
        val == Get(row, valueKey)
        at == IndexOf(acc.xs, xVal)
        xs == IF at = 0 THEN Append(acc.xs, xVal) ELSE acc.xs
        entries == IF at = 0
                   THEN Append(acc.entries, JObj(<<dateKey>>, <<JStr(xVal)>>))
                   ELSE acc.entries
        pos == IF at = 0 THEN Len(entries) ELSE at
    IN PivotFirstWins(Tail(rows), dateKey, categoryKey, valueKey,
             [xs |-> xs,
              entries |-> [entries EXCEPT ![pos] =
                             IF Includes(@.keys, series) THEN @
                             ELSE ObjSet(@, series, val)],
              series |-> IF Includes(acc.series, series) THEN acc.series
                         ELSE Append(acc.series, series)])

RECURSIVE Pivot(_, _, _, _, _)
\* records.forEach(row => ...) on the rows not yet visited; acc holds the
\* insertion-ordered pivotedMap (xs, entries) and allSeries
Pivot(rows, dateKey, categoryKey, valueKey, acc) ==
  IF rows = <<>> THEN acc
  ELSE
    LET row == Head(rows)
        xVal == ToStr(Get(row, dateKey))
        series == ToStr(Get(row, categoryKey))
        val == Get(row, valueKey)
        at == IndexOf(acc.xs, xVal)
        xs == IF at = 0 THEN Append(acc.xs, xVal) ELSE acc.xs
        entries == IF at = 0
                   THEN Append(acc.entries, JObj(<<dateKey>>, <<JStr(xVal)>>))
                   ELSE acc.entries
        pos == IF at = 0 THEN Len(entries) ELSE at
    IN Pivot(Tail(rows), dateKey, categoryKey, valueKey,
             [xs |-> xs,
              entries |-> [entries EXCEPT ![pos] = ObjSet(entries[pos], series, val)],
              series |-> IF Includes(acc.series, series) THEN acc.series
                         ELSE Append(acc.series, series)])

normalizeRecords(records, chartType) ==
  LET keys == ObjectKeys(records[1])
      sample == Slice(records, 5)
      IsNumericKey(k) == EveryNumeric(sample, k) = "true"
      numericKeys == SelectSeq(keys, IsNumericKey)
      IsStringKey(k) == ~Includes(numericKeys, k)
      stringKeys == SelectSeq(keys, IsStringKey)
      xKey == OrKey(First(stringKeys), First(keys))
      yKey == OrKey(First(numericKeys), OrKey(Second(keys), First(keys)))
      IsNamedDate(k) == DateNamePattern(k) /\ Includes(stringKeys, k)
      dateKey == OrKey(First(SelectSeq(keys, IsNamedDate)), First(stringKeys))
      NotDateKey(k) == k # dateKey
      categoryKey == First(SelectSeq(stringKeys, NotDateKey))
      valueKey == First(numericKeys)
      pivoted == Pivot(records, dateKey, categoryKey, valueKey,
                       [xs |-> <<>>, entries |-> <<>>, series |-> <<>>])
  IN \* Object.keys(null) raises
     IF records[1].t = "null" THEN Threw
     ELSE IF \E i \in 1..Len(keys) : EveryNumeric(sample, keys[i]) = "throw" THEN Threw
     ELSE IF chartType = "scatter" /\ Includes(keys, "x") /\ Includes(keys, "y")
     THEN ChartData(records, "x", "y", NoSeries)
     ELSE IF /\ chartType \in {"line", "bar", "area"}
             /\ OrKey(dateKey, NoKey) # NoKey
             /\ OrKey(categoryKey, NoKey) # NoKey
             /\ OrKey(valueKey, NoKey) # NoKey
     THEN IF \E i \in 1..Len(records) : ReadThrows(records[i]) THEN Threw
          ELSE ChartData(pivoted.entries, dateKey, valueKey, pivoted.series)
     ELSE ChartData(records, xKey, yKey, NoSeries)

\* data.map((value, index) => ({name: `${index + 1}`, value})), from index i on
NumberRows(items, i) ==
  [j \in 1..(Len(items) - i + 1) |->
     JObj(<<"name", "value">>, <<JStr(ToString(i + j - 1)), items[i + j - 1]>>)]

normalizeDataForChart(data, chartType) ==
  LET \* the typeof operator
      TypeOf(v) == IF v.t \in {"null", "array", "object"} THEN "object" ELSE v.t
      IsArray(v) == v.t = "array"
  IN
  IF ~Truthy(data) THEN ReturnsNull
  ELSE IF data.t = "object" THEN normalizeObject(data)
  ELSE IF IsArray(data) /\ Len(data.items) > 0 /\ TypeOf(data.items[1]) = "object"
  THEN normalizeRecords(data.items, chartType)
  ELSE IF IsArray(data) /\ \A i \in 1..Len(data.items) : data.items[i].t = "number"
  THEN ChartData(NumberRows(data.items, 1), "name", "value", NoSeries)
  ELSE ReturnsNull

(***************************************************************************)
(* The collaborators of the chat route                                     *)
(***************************************************************************)
\* number of chat requests in flight at the same time
NumReq == 2

Requests == 1..NumReq

None == [none |-> TRUE]

\* the registry file data/datasets-metadata.json after one upload
UploadedRegistry ==
  [ds1 |-> [datasetId |-> "ds1", filePath |-> "data/uploads/ds1.csv",
            columns |-> <<[name |-> "region", type |-> "string"],
                          [name |-> "sales", type |-> "number"]>>]]

\* getDatasetMetadata: existing[datasetId] || null
getDatasetMetadata(registry, datasetId) ==
  IF datasetId \in DOMAIN registry THEN registry[datasetId] ELSE None

\* metadata.columns.map((c) => c.name)
ColumnNames(metadata) == [i \in 1..Len(metadata.columns) |-> metadata.columns[i].name]

\* what generatePythonCode returns for the answers of the language model
LLMOutputs ==
  { [code |-> <<"import", " ", "pandas", "\n",
                "print", "(", "json", ".", "dumps", "(", "result", ")", ")">>,
     summary |-> "Total sales", explanation |-> "Sum the sales column"],
    [code |-> <<"result", " ", "=", " ", "df", "[", "[", "\n">>,
     summary |-> "Analyzing your data", explanation |-> ""],
    [code |-> <<" ", "eval", " ", "(", "x", ")", "\n">>,
     summary |-> "Analyzing your data", explanation |-> ""],
    [code |-> <<"import", " ", "socket", "\n">>,
     summary |-> "Fetch remote data", explanation |-> "Open a connection"],
    [code |-> <<"]", "]", "\n", "result", " ", "=", " ", "df", "[", "[", "\n">>,
     summary |-> "Select the columns", explanation |-> ""],
    [code |-> <<" ">>,
     summary |-> "Analyzing your data", explanation |-> ""] }

\* the wall-clock limit of one execution, in milliseconds
TimeoutMs == 30000

\* what the wrapped code does when the sandbox runs it; Results are the JSON
\* documents the generated code prints in the model
GuestRuns ==
  LET Results ==
        { JObj(<<"value">>, <<JNum(42)>>),
          JArr(<<JObj(<<"region", "sales">>, <<JStr("North"), JNum(10)>>),
                 JObj(<<"region", "sales">>, <<JStr("South"), JNum(20)>>)>>),
          JArr(<<JNull>>) }
  IN
  {[kind |-> "prints", doc |-> v, elapsed |-> 7] : v \in Results}
  \cup {[kind |-> "raises", exc |-> e, elapsed |-> 7] : e \in {"KeyError", "ZeroDivisionError"}}
  \cup {[kind |-> "garbage", elapsed |-> 7], [kind |-> "timeout", elapsed |-> TimeoutMs]}

(***************************************************************************)
(* wrapCodeWithSafetyChecks: the generated code runs as the body of a try  *)
(* statement with four except clauses                                      *)
(***************************************************************************)
\* the exception classes the wrapped code raises in the model, each with its
\* base class
BaseClass ==
  [KeyError |-> "LookupError", IndexError |-> "LookupError",
   LookupError |-> "Exception", TypeError |-> "Exception",
   ValueError |-> "Exception", UnicodeDecodeError |-> "ValueError",
   ZeroDivisionError |-> "ArithmeticError", ArithmeticError |-> "Exception",
   Exception |-> "BaseException", SystemExit |-> "BaseException",
   KeyboardInterrupt |-> "BaseException"]

RECURSIVE IsInstance(_, _)
\* isinstance(e, cls) for an exception e of class exc
IsInstance(exc, cls) ==
  \/ exc = cls
  \/ exc \in DOMAIN BaseClass /\ IsInstance(BaseClass[exc], cls)

\* str(e) of the exceptions of the model
Message(exc) ==
  CASE exc = "KeyError" -> "'missing'"
    [] exc = "IndexError" -> "list index out of range"
    [] exc = "TypeError" -> "unsupported operand type(s)"
    [] exc = "ValueError" -> "could not convert string to float"
    [] exc = "UnicodeDecodeError" -> "invalid start byte"
    [] exc = "ZeroDivisionError" -> "division by zero"
    [] OTHER -> ""

\* the list _AVAILABLE_COLUMNS formatted in an f-string
PyList(columns) ==
  LET RECURSIVE PyItems(_)
      PyItems(cs) ==
        IF cs = <<>> THEN ""
        ELSE "'" \o Head(cs) \o "'"
             \o (IF Len(cs) > 1 THEN ", " ELSE "") \o PyItems(Tail(cs))
  IN "[" \o PyItems(columns) \o "]"

\* the except clauses, in the order of the template
ExceptClauses == <<"KeyError", "TypeError", "ValueError", "Exception">>

\* the index of the first except clause that matches, 0 when none does
MatchingClause(exc) ==
  IF \E i \in 1..Len(ExceptClauses) : IsInstance(exc, ExceptClauses[i])
  THEN CHOOSE i \in 1..Len(ExceptClauses) :
         /\ IsInstance(exc, ExceptClauses[i])
         /\ \A j \in 1..(i - 1) : ~IsInstance(exc, ExceptClauses[j])
  ELSE 0

\* result = {"error": ...} of the matching except clause
ErrorDocument(exc, availableColumns) ==
  JObj(<<"error">>,
       <<JStr(CASE MatchingClause(exc) = 1 ->
                     "Column not found: " \o Message(exc) \o ". Available: "
                       \o PyList(availableColumns)
                [] MatchingClause(exc) = 2 -> "Type error: " \o Message(exc)
                [] MatchingClause(exc) = 3 -> "Value error: " \o Message(exc)
                [] OTHER -> exc \o ": " \o Message(exc))>>)

\* what a line of standard output is when it is not a JSON document
RawText == [t |-> "text"]

RECURSIVE RunWrapped(_, _, _)
\* the process that runs the wrapped code: steps are the statements of the
\* try body not yet run, stdout the lines printed so far.  An exception ends
\* the body; the matching except clause prints its document and the script
\* ends; SystemExit and KeyboardInterrupt match no clause
RunWrapped(steps, availableColumns, stdout) ==
  IF steps = <<>> THEN [stdout |-> stdout, status |-> 0, traceback |-> FALSE]
  ELSE CASE Head(steps).op = "print" ->
              RunWrapped(Tail(steps), availableColumns, Append(stdout, Head(steps).doc))
         [] Head(steps).op = "pass" ->
              RunWrapped(Tail(steps), availableColumns, stdout)
         [] OTHER ->
              IF MatchingClause(Head(steps).exc) # 0
              THEN [stdout |-> Append(stdout,
                                      ErrorDocument(Head(steps).exc, availableColumns)),
                    status |-> 0, traceback |-> FALSE]
              ELSE IF Head(steps).exc = "SystemExit"
              THEN [stdout |-> stdout, status |-> 0, traceback |-> FALSE]
              ELSE [stdout |-> stdout, status |-> 1, traceback |-> TRUE]

\* the document the except clauses print for an exception of the wrapped code
HarnessErrorDocument(exc) == ErrorDocument(exc, ColumnNames(UploadedRegistry["ds1"]))

\* executePythonCode: a timeout or an output that is not one JSON document is
\* a failure with a diagnostic; one JSON document on standard output is the
\* result
executePythonCode(run) ==
  \* the standard output of a run that ends normally
  LET HarnessStdout ==
        IF run.kind = "raises" THEN HarnessErrorDocument(run.exc) ELSE run.doc
  IN
  CASE run.kind = "timeout" ->
         [success |-> FALSE, error |-> "Execution timed out", stderr |-> "",
          executionTime |-> run.elapsed]
    [] run.kind = "garbage" ->
         [success |-> FALSE, error |-> "Output is not valid JSON",
          stderr |-> "Traceback", executionTime |-> run.elapsed]
    [] OTHER ->
         [success |-> TRUE, result |-> HarnessStdout, error |-> "",
          stderr |-> "", executionTime |-> run.elapsed]

(***************************************************************************)
(* POST of the chat route, in its two revisions                            *)
(***************************************************************************)

\* a || b on strings
OrStr(a, b) == IF a = "" THEN b ELSE a

BadRequest == [status |-> 400, error |-> "Invalid request: missing message or datasetId"]

NotFound == [status |-> 404, error |-> "Dataset not found or expired"]

InternalError == [status |-> 500, error |-> "Internal server error"]

ValidationFailureResponseSanitized(revision, generation, sanitization) ==
  [status |-> 200, success |-> FALSE,
   analysis |-> [summary |-> generation.summary,
                 pythonCode |-> sanitization.sanitizedCode,
                 codeOutput |-> [text |-> "Code validation failed: ",
                                 errors |-> sanitization.errors],
                 explanation |-> "The generated code contains unsafe patterns and was blocked.",
                 executionTime |-> 0]]

\* the response of the !sanitization.isValid branch
ValidationFailureResponse(revision, generation, sanitization) ==
  [status |-> 200, success |-> FALSE,
   analysis |-> [summary |-> generation.summary,
                 pythonCode |-> generation.code,
                 codeOutput |-> [text |-> "Code validation failed: ",
                                 errors |-> sanitization.errors],
                 explanation |->
                   IF revision = "part_006"
                   THEN OrStr(generation.explanation,
                              "The generated code contains unsafe patterns and was blocked.")
                   ELSE "The generated code contains unsafe patterns and was blocked.",
                 executionTime |-> 0]]

ExecutionFailureResponseNoTime(revision, generation, execution) ==
  [status |-> 200, success |-> FALSE,
   analysis |-> [summary |-> generation.summary,
                 pythonCode |-> generation.code,
                 codeOutput |-> OrStr(execution.error, "Unknown error"),
                 explanation |-> OrStr(execution.stderr, "No additional details available"),
                 executionTime |-> 0]]

\* the response of the !execution.success branch
ExecutionFailureResponse(revision, generation, execution) ==
  [status |-> 200, success |-> FALSE,
   analysis |-> [summary |-> generation.summary,
                 pythonCode |-> generation.code,
                 codeOutput |-> OrStr(execution.error, "Unknown error"),
                 explanation |->
                   IF revision = "part_006"
                   THEN OrStr(generation.explanation,
                              OrStr(execution.stderr, "No additional details available"))
                   ELSE OrStr(execution.stderr, "No additional details available"),
                 executionTime |-> execution.executionTime]]

\* the success response of part_005: no chart recommendation
PlainSuccessResponse(generation, execution) ==
  [status |-> 200, success |-> TRUE,
   analysis |-> [summary |-> generation.summary,
                 pythonCode |-> generation.code,
                 codeOutput |-> [json |-> execution.result],
                 explanation |-> [text |-> "Execution completed in ",
                                  ms |-> execution.executionTime],
                 executionTime |-> execution.executionTime,
                 result |-> execution.result]]

\* the success response of part_006
ChartSuccessResponse(generation, execution, chartRec, chartData) ==
  [status |-> 200, success |-> TRUE,
   analysis |-> [summary |-> generation.summary,
                 pythonCode |-> generation.code,
                 codeOutput |-> [json |-> execution.result],
                 explanation |->
                   IF generation.explanation # ""
                   THEN [text |-> generation.explanation \o " - Executed in ",
                         ms |-> execution.executionTime]
                   ELSE [text |-> "Execution completed in ",
                         ms |-> execution.executionTime],
                 executionTime |-> execution.executionTime,
                 result |-> execution.result,
                 chartType |-> IF chartRec.chartType \notin {"table", "number"}
                               THEN chartRec.chartType ELSE NoKey,
                 chartConfidence |-> chartRec.confidence,
                 chartReason |-> chartRec.reason,
                 chartData |-> IF chartData.isNull THEN None ELSE chartData.data,
                 chartConfig |-> IF chartData.isNull THEN None
                                 ELSE [xKey |-> chartData.xKey, yKey |-> chartData.yKey],
                 displayType |-> chartRec.chartType]]

NewRequest ==
  [pc |-> "idle", message |-> "", datasetId |-> "", metadata |-> None,
   generation |-> None, sanitization |-> None, executorArgs |-> None, run |-> None,
   execution |-> None, stages |-> <<>>, response |-> None]

Respond(req, response) == [req EXCEPT !.pc = "responded", !.response = response]

VARIABLES
  lastIndex,   \* BLOCKED_PATTERNS[p].lastIndex, module state of the sanitizer
  call,        \* the latest direct sanitizeCode call: its arguments and result
  revision,    \* the deployed revision of the chat route
  registry,    \* the contents of the dataset registry file
  reqs         \* the chat requests in flight

vars == <<lastIndex, call, revision, registry, reqs>>

ZeroIndex == [p \in PatternIds |-> 0]

NoCall == [made |-> FALSE]

Init ==
  /\ lastIndex = ZeroIndex
  /\ call = NoCall
  /\ revision \in {"part_005", "part_006"}
  /\ registry = UploadedRegistry
  /\ reqs = [r \in Requests |-> NewRequest]

StartUnchecked(r, message, datasetId) ==
  /\ reqs[r].pc = "idle"
  /\ reqs' = [reqs EXCEPT ![r] =
                IF datasetId = ""
                THEN Respond([@ EXCEPT !.message = message, !.datasetId = datasetId],
                             BadRequest)
                ELSE [@ EXCEPT !.pc = "lookup", !.message = message,
                               !.datasetId = datasetId]]
  /\ UNCHANGED <<lastIndex, call, revision, registry>>

\* request.json(), then the check of message and datasetId
Start(r, message, datasetId) ==
  /\ reqs[r].pc = "idle"
  /\ reqs' = [reqs EXCEPT ![r] =
                IF message = "" \/ datasetId = ""
                THEN Respond([@ EXCEPT !.message = message, !.datasetId = datasetId],
                             BadRequest)
                ELSE [@ EXCEPT !.pc = "lookup", !.message = message,
                               !.datasetId = datasetId]]
  /\ UNCHANGED <<lastIndex, call, revision, registry>>

LookupExpires(r) ==
  /\ reqs[r].pc = "lookup"
  /\ LET metadata == getDatasetMetadata(registry, reqs[r].datasetId)
     IN /\ reqs' = [reqs EXCEPT ![r] =
                      IF metadata = None
                      THEN Respond(@, NotFound)
                      ELSE [@ EXCEPT !.pc = "GENERATING", !.metadata = metadata,
                                     !.stages = Append(@, "generate")]]
        /\ registry' = [d \in DOMAIN registry \ {reqs[r].datasetId} |-> registry[d]]
  /\ UNCHANGED <<lastIndex, call, revision>>

\* getDatasetMetadata returns; generatePythonCode is called
Lookup(r) ==
  /\ reqs[r].pc = "lookup"
  /\ LET metadata == getDatasetMetadata(registry, reqs[r].datasetId)
     IN reqs' = [reqs EXCEPT ![r] =
                   IF metadata = None
                   THEN Respond(@, NotFound)
                   ELSE [@ EXCEPT !.pc = "GENERATING", !.metadata = metadata,
                                  !.stages = Append(@, "generate")]]
  /\ UNCHANGED <<lastIndex, call, revision, registry>>

\* generatePythonCode rethrows the failure of the language model call
GenerateThrows(r) ==
  /\ reqs[r].pc = "GENERATING"
  /\ reqs' = [reqs EXCEPT ![r] = Respond(@, InternalError)]
  /\ UNCHANGED <<lastIndex, call, revision, registry>>

GeneratedRaw(r, generation) ==
  /\ reqs[r].pc = "GENERATING"
  /\ LET s == sanitizeCode(generation.code, ColumnNames(reqs[r].metadata), lastIndex)
         validated == [reqs[r] EXCEPT !.generation = generation,
                                      !.sanitization = s.result,
                                      !.stages = Append(@, "validate")]
     IN /\ lastIndex' = s.lastIndex
        /\ reqs' = [reqs EXCEPT ![r] =
                      IF ~s.result.isValid
                      THEN Respond(validated,
                             ValidationFailureResponse(revision, generation, s.result))
                      ELSE [validated EXCEPT !.pc = "EXECUTING",
                                             !.executorArgs =
                                               [code |-> generation.code,
                                                filePath |-> reqs[r].metadata.filePath,
                                                columns |-> reqs[r].metadata.columns],
                                             !.stages = Append(@, "execute")]]
  /\ UNCHANGED <<call, revision, registry>>

\* generatePythonCode returns: sanitizeCode, then either the validation
\* failure response or the call of executePythonCode
Generated(r, generation) ==
  /\ reqs[r].pc = "GENERATING"
  /\ LET s == sanitizeCode(generation.code, ColumnNames(reqs[r].metadata), lastIndex)
         validated == [reqs[r] EXCEPT !.generation = generation,
                                      !.sanitization = s.result,
                                      !.stages = Append(@, "validate")]
     IN /\ lastIndex' = s.lastIndex
        /\ reqs' = [reqs EXCEPT ![r] =
                      IF ~s.result.isValid
                      THEN Respond(validated,
                             ValidationFailureResponse(revision, generation, s.result))
                      \* executePythonCode(sanitization.sanitizedCode,
                      \* metadata.filePath, metadata.columns)
                      ELSE [validated EXCEPT !.pc = "EXECUTING",
                                             !.executorArgs =
                                               [code |-> s.result.sanitizedCode,
                                                filePath |-> reqs[r].metadata.filePath,
                                                columns |-> reqs[r].metadata.columns],
                                             !.stages = Append(@, "execute")]]
  /\ UNCHANGED <<call, revision, registry>>

AfterExecutionRetry(rev, req, execution) ==
  LET chartRec == recommendChart(execution.result)
      chartData == normalizeDataForChart(execution.result, chartRec.chartType)
  IN IF ~execution.success /\ Len(req.stages) = 3
     THEN [req EXCEPT !.pc = "EXECUTING", !.stages = Append(@, "execute")]
     ELSE IF ~execution.success
     THEN Respond(req, ExecutionFailureResponse(rev, req.generation, execution))
     ELSE IF rev = "part_005"
     THEN Respond(req, PlainSuccessResponse(req.generation, execution))
     ELSE IF chartRec.threw
     THEN Respond([req EXCEPT !.stages = Append(@, "classify")], InternalError)
     ELSE IF chartData.threw
     THEN Respond([req EXCEPT !.stages = @ \o <<"classify", "normalize">>],
                  InternalError)
     ELSE Respond([req EXCEPT !.stages = @ \o <<"classify", "normalize">>],
                  ChartSuccessResponse(req.generation, execution, chartRec, chartData))

\* the rest of POST after executePythonCode returned execution
AfterExecution(rev, req, execution) ==
  LET chartRec == recommendChart(execution.result)
      chartData == normalizeDataForChart(execution.result, chartRec.chartType)
  IN IF ~execution.success
     THEN Respond(req, ExecutionFailureResponse(rev, req.generation, execution))
     ELSE IF rev = "part_005"
     THEN Respond(req, PlainSuccessResponse(req.generation, execution))
     ELSE IF chartRec.threw
     THEN Respond([req EXCEPT !.stages = Append(@, "classify")], InternalError)
     ELSE IF chartData.threw
     THEN Respond([req EXCEPT !.stages = @ \o <<"classify", "normalize">>],
                  InternalError)
     ELSE Respond([req EXCEPT !.stages = @ \o <<"classify", "normalize">>],
                  ChartSuccessResponse(req.generation, execution, chartRec, chartData))

\* executePythonCode returns
Executed(r, run) ==
  /\ reqs[r].pc = "EXECUTING"
  /\ reqs' = [reqs EXCEPT ![r] =
                AfterExecution(revision,
                               [@ EXCEPT !.run = run, !.execution = executePythonCode(run)],
                               executePythonCode(run))]
  /\ UNCHANGED <<lastIndex, call, revision, registry>>

\* the response is delivered; the next request arrives
Close(r) ==
  /\ reqs[r].pc = "responded"
  /\ reqs' = [reqs EXCEPT ![r] = NewRequest]
  /\ UNCHANGED <<lastIndex, call, revision, registry>>

Next ==
  \E r \in Requests :
    \/ \E message \in {"", "total sales"}, datasetId \in {"", "ds1", "ds9"} :
         Start(r, message, datasetId)
    \/ Lookup(r)
    \/ GenerateThrows(r)
    \/ \E generation \in LLMOutputs : Generated(r, generation)
    \/ \E run \in GuestRuns : Executed(r, run)
    \/ Close(r)

Spec == Init /\ [][Next]_vars

InitSanitizer ==
  /\ lastIndex = ZeroIndex
  /\ call = NoCall
  /\ revision = "part_006"
  /\ registry = UploadedRegistry
  /\ reqs = [r \in Requests |-> NewRequest]

\* one call sanitizeCode(code, availableColumns)
Sanitize(code, availableColumns) ==
  LET r == sanitizeCode(code, availableColumns, lastIndex)
  IN /\ lastIndex' = r.lastIndex
     /\ call' = [made |-> TRUE, code |-> code,
                 availableColumns |-> availableColumns, result |-> r.result]
     /\ UNCHANGED <<revision, registry, reqs>>

NextSanitizer == \E code \in Codes, cols \in ColumnLists : Sanitize(code, cols)

SpecSanitizer == InitSanitizer /\ [][NextSanitizer]_vars

(***************************************************************************)
(* The chart recommender called on the JSON values a run can print         *)
(***************************************************************************)
\* number of elements of a generated array, of entries of a generated mapping
MaxItems == 2

ChartTypes == {"number", "table", "bar", "line", "area", "pie", "scatter"}

Rec3(month, region, sales) ==
  JObj(<<"month", "region", "sales">>, <<JStr(month), JStr(region), JNum(sales)>>)

\* Scenario D of the testable properties
ScenarioD ==
  JArr(<<Rec3("2024-01", "A", 10), Rec3("2024-01", "B", 20), Rec3("2024-02", "A", 15)>>)

RECURSIVE SeqsUpTo(_, _)
\* the sequences of at most n members of S
SeqsUpTo(S, n) ==
  IF n = 0 THEN {<<>>}
  ELSE SeqsUpTo(S, n - 1)
       \cup {Append(s, e) : s \in {q \in SeqsUpTo(S, n - 1) : Len(q) = n - 1}, e \in S}

\* the JSON documents given to the chart recommender
ChartInputs ==
  LET \* the elements of the generated arrays
      Elements ==
        { Rec3("2024-01", "A", 10), Rec3("2024-01", "B", 20), Rec3("2024-02", "A", 15),
          Rec3("2024-01", "A", 7), Rec3("2024-01", "month", 5),
          JObj(<<"date", "region", "sales">>, <<JStr("2024-01-15"), JStr("A"), JNum(10)>>),
          JObj(<<"date", "region", "sales">>, <<JStr("2024-02-15"), JStr("B"), JStr("20")>>),
          JObj(<<"x", "y">>, <<JNum(1), JNum(5)>>),
          JObj(<<"x", "y">>, <<JStr("2024-01-15"), JNum(5)>>),
          JObj(<<"sales", "count">>, <<JNum(10), JStr("5")>>),
          JObj(<<"region">>, <<JStr("A")>>),
          JObj(<<"a", "b", "c", "d", "e">>,
               <<JStr("A"), JStr("B"), JStr("A"), JStr("B"), JBool(TRUE)>>),
          JObj(<<>>, <<>>),
          JNull, JNum(5), JStr("A"), JBool(TRUE), JArr(<<JNum(1)>>) }

      \* the elements of the arrays of 20 to 51 elements
      LongElements ==
        { JObj(<<"region", "sales">>, <<JStr("A"), JNum(10)>>),
          JObj(<<"date", "sales">>, <<JStr("2024-01-15"), JNum(10)>>),
          JObj(<<"x", "y">>, <<JNum(1), JNum(5)>>),
          JObj(<<"sales", "count">>, <<JNum(10), JStr("5")>>),
          JObj(<<"region">>, <<JStr("A")>>),
          JObj(<<>>, <<>>),
          JNull, JNum(5), JStr("A") }

      \* n copies of e
      Repeat(e, n) == [i \in 1..n |-> e]

      MapKeys == {"North", "South", "value", "error", "2024-01", "Jan"}

      MapValues == {JNum(10), JNum(0), JStr("A"), JNull}

      \* a mapping whose keys are the first n of 12 names, in this order
      NumericMap(n) ==
        LET names == <<"North", "South", "East", "West", "Centre", "Coast", "Hills",
                       "Plains", "Lakes", "Delta", "Ridge", "Valley">>
        IN JObj(SubSeq(names, 1, n), [i \in 1..n |-> JNum(i)])

      Distinct(seq) == \A i, j \in 1..Len(seq) : i # j => seq[i] # seq[j]

      Mappings ==
        {JObj(ks, vs) : ks \in {k \in SeqsUpTo(MapKeys, MaxItems) : Distinct(k)},
                        vs \in SeqsUpTo(MapValues, MaxItems)}
  IN
  {JNull, JNum(42), JNum(0), JStr("North"), JStr(""), JBool(TRUE), JBool(FALSE)}
  \cup {m \in Mappings : Len(m.keys) = Len(m.vals)}
  \cup {NumericMap(4), NumericMap(6), NumericMap(7), NumericMap(12),
        ObjSet(NumericMap(6), "2024-02", JNum(7)),
        ObjSet(NumericMap(7), "error", JNum(7))}
  \cup {JArr(s) : s \in SeqsUpTo(Elements, MaxItems)}
  \cup {ScenarioD}
  \cup {JArr(Repeat(e, n)) : e \in LongElements, n \in {20, 21, 50, 51}}
  \cup {JArr(Repeat(JObj(<<"region">>, <<JStr("A")>>), 10) \o <<JNull>>),
        JArr(Repeat(JObj(<<"region", "sales">>, <<JStr("A"), JNum(10)>>), 10)
             \o <<JObj(<<"region", "sales">>, <<JStr("2024-03-15"), JStr("n/a")>>)>>)}

\* the document is printed by a run; the recommender has not been called yet
InitChart ==
  /\ lastIndex = ZeroIndex
  /\ call \in {[made |-> FALSE, data |-> data] : data \in ChartInputs}
  /\ revision = "part_006"
  /\ registry = UploadedRegistry
  /\ reqs = [r \in Requests |-> NewRequest]

\* chartRec = recommendChart(result); chartData =
\* normalizeDataForChart(result, chartRec.chartType): an exception of the
\* first call leaves the second one out
Chart ==
  LET chartRec == recommendChart(call.data)
  IN /\ ~call.made
     /\ call' = [made |-> TRUE, fn |-> "recommendChart", data |-> call.data,
                 chartRec |-> chartRec,
                 chartData |-> IF chartRec.threw THEN None
                               ELSE normalizeDataForChart(call.data, chartRec.chartType)]
     /\ UNCHANGED <<lastIndex, revision, registry, reqs>>

\* one call normalizeDataForChart(data, chartType)
Normalize(chartType) ==
  /\ ~call.made
  /\ call' = [made |-> TRUE, fn |-> "normalizeDataForChart", data |-> call.data,
              chartType |-> chartType,
              chartData |-> normalizeDataForChart(call.data, chartType)]
  /\ UNCHANGED <<lastIndex, revision, registry, reqs>>

NextChart ==
  \/ Chart
  \/ \E chartType \in ChartTypes : Normalize(chartType)

SpecChart == InitChart /\ [][NextChart]_vars

(***************************************************************************)
(* The wrapped code run on its own                                         *)
(***************************************************************************)
\* the wrapped codes: at most MaxStmts statements, each given by what it does
\* when it runs
GuestPrograms ==
  LET GuestSteps ==
        {[op |-> "print", doc |-> JObj(<<"value">>, <<JNum(42)>>)],
         [op |-> "print", doc |-> RawText],
         [op |-> "pass"]}
        \cup {[op |-> "raise", exc |-> e] :
                e \in {"KeyError", "IndexError", "TypeError", "ValueError",
                       "UnicodeDecodeError", "ZeroDivisionError", "SystemExit",
                       "KeyboardInterrupt"}}
  IN SeqsUpTo(GuestSteps, MaxStmts) \ {<<>>}

InitHarness ==
  /\ lastIndex = ZeroIndex
  /\ call \in {[made |-> FALSE, program |-> p, availableColumns |-> c] :
                 p \in GuestPrograms, c \in ColumnLists}
  /\ revision = "part_006"
  /\ registry = UploadedRegistry
  /\ reqs = [r \in Requests |-> NewRequest]

\* the script wrapCodeWithSafetyChecks returned runs to its end
RunScript ==
  /\ ~call.made
  /\ call' = [made |-> TRUE, program |-> call.program,
              availableColumns |-> call.availableColumns,
              exit |-> RunWrapped(call.program, call.availableColumns, <<>>)]
  /\ UNCHANGED <<lastIndex, revision, registry, reqs>>

NextHarness == RunScript

SpecHarness == InitHarness /\ [][NextHarness]_vars

(***************************************************************************)
(* Specification of the parsing of the answer: the answers the language    *)
(* model can give, and generatePythonCode on each                          *)
(***************************************************************************)
\* the answers of the model: the JSON envelope the prompt asks for, as the
\* model may write it (in either quote, with or without a summary, with other
\* members, with a trailing comma), plain code, a bare JSON value or plain
\* text, with or without a fence and with or without text around it
Contents ==
  LET CodeTexts ==
        {<<"import", " ", "pandas">>,
         <<"import", " ", "pandas", "\n", "print", "(", "df", ")">>}
      Lit(q, text) == <<q>> \o text \o <<q>>
      Member(q, key, value) == Lit(q, <<key>>) \o <<":", " ">> \o value
      Extras(q) ==
        {<<>>,
         Member(q, "cached", <<"True">>) \o <<",", " ">>,
         Member(q, "cached", <<"true">>) \o <<",", " ">>,
         Member(q, "explanation", <<"None">>) \o <<",", " ">>,
         Member(q, "columns", <<"[">> \o Lit(q, <<"region">>) \o <<"]">>) \o <<",", " ">>}
      EnvelopesIn(q) ==
        {<<"{">> \o summary \o extra \o Member(q, "code", Lit(q, code)) \o trailing
           \o <<"}">> :
           summary \in {<<>>, Member(q, "summary", Lit(q, <<"Total", " ", "sales">>))
                                \o <<",", " ">>},
           extra \in Extras(q),
           code \in CodeTexts,
           trailing \in {<<>>, <<",">>}}
      Bodies ==
        EnvelopesIn("\"") \cup EnvelopesIn("'") \cup CodeTexts
          \cup {<<"null">>, <<"true">>, <<"\"", "Total", " ", "sales", "\"">>,
                <<"Total", " ", "sales">>}
      Fenced(tag, body) == <<Fence>> \o tag \o <<"\n">> \o body \o <<"\n", Fence>>
  IN {before \o wrapped \o after :
        before \in {<<>>, <<"Here", " ", "is", " ", "the", " ", "plan", "\n">>},
        after \in {<<>>, <<"\n", "Done">>},
        wrapped \in Bodies \cup {Fenced(tag, body) :
                                  tag \in {<<>>, <<"json">>, <<"python">>},
                                  body \in Bodies}}

InitGenerate ==
  /\ lastIndex = ZeroIndex
  /\ call \in {[made |-> FALSE, content |-> content] : content \in Contents}
  /\ revision = "part_006"
  /\ registry = UploadedRegistry
  /\ reqs = [r \in Requests |-> NewRequest]

\* generatePythonCode from the answer of the model on
GenerateCode ==
  /\ ~call.made
  /\ call' = [made |-> TRUE, content |-> call.content,
              generation |-> generatePythonCode(call.content)]
  /\ UNCHANGED <<lastIndex, revision, registry, reqs>>

NextGenerate == GenerateCode

SpecGenerate == InitGenerate /\ [][NextGenerate]_vars

(***************************************************************************)
(* ConfigurableChart: the series the chart component renders               *)
(***************************************************************************)
\* capData: the first max - 1 entries and one entry "Other" that sums the rest
capData(data, max) ==
  LET first == data[1]
      numberKeys == SelectSeq(ObjectKeys(first), LAMBDA k : Get(first, k).t = "number")
      stringKeys == SelectSeq(ObjectKeys(first), LAMBDA k : Get(first, k).t = "string")
      valueKey == OrKey(First(numberKeys), "value")
      nameKey == OrKey(First(stringKeys), "name")
      \* Number(v) || 0
      NumberOr0(v) ==
        CASE v.t = "number" -> v.n
          [] v.t = "boolean" -> (IF v.b THEN 1 ELSE 0)
          [] v.t = "string" /\ v.s \in NumericStrings /\ v.s # "" ->
               (CHOOSE n \in Numbers \cup {2024} : ToString(n) = v.s)
          [] OTHER -> 0
      RECURSIVE TailSum(_)
      TailSum(i) ==
        IF i > Len(data) THEN 0
        ELSE NumberOr0(Get(data[i], valueKey)) + TailSum(i + 1)
      other == ObjSet(ObjSet(JObj(<<>>, <<>>), nameKey, JStr("Other")),
                      valueKey, JNum(TailSum(max)))
  IN IF Len(data) <= max THEN [threw |-> FALSE, data |-> data]
     \* Object.keys(data[0]) and d[valueKey] raise on null
     ELSE IF ReadThrows(first) \/ \E i \in max..Len(data) : ReadThrows(data[i])
     THEN Threw
     ELSE [threw |-> FALSE, data |-> Append(SubSeq(data, 1, max - 1), other)]

\* the component: nothing for no data, else the keys of the axes and the
\* capped series
ConfigurableChart(type, data, config) ==
  LET xKey == OrKey(OrKey(config.xKey, config.nameKey), "name")
      yKey == OrKey(OrKey(config.yKey, config.valueKey), "value")
      chartData == CASE type = "pie" -> capData(data, 10)
                     [] type = "bar" -> capData(data, 30)
                     [] OTHER -> [threw |-> FALSE, data |-> Slice(data, 100)]
  IN IF data = <<>> THEN [threw |-> FALSE, rendered |-> FALSE]
     ELSE IF ReadThrows(data[1]) \/ chartData.threw THEN Threw
     ELSE [threw |-> FALSE, rendered |-> TRUE, xKey |-> xKey, yKey |-> yKey,
           chartData |-> chartData.data]

\* the props of the component: a series of one first row and the same row
\* after it, but for the last, of a length around the caps
InitRender ==
  LET Rows ==
        {JObj(<<"name", "value">>, <<JStr("North"), JNum(10)>>),
         JObj(<<"name", "value">>, <<JStr("South"), JNum(5)>>),
         JObj(<<"region", "sales">>, <<JStr("North"), JNum(20)>>),
         JObj(<<"region", "sales">>, <<JStr("South"), JNull>>),
         JObj(<<"region", "sales", "count">>, <<JStr("East"), JStr("10"), JNum(1)>>),
         JObj(<<"month", "A", "B">>, <<JStr("2024-01"), JNum(10), JNum(20)>>)}
      Lengths == {0, 1, 9, 10, 11, 12, 29, 30, 31, 32}
      Series ==
        {[i \in 1..n |-> IF i = 1 THEN first ELSE IF i = n THEN last ELSE rest] :
           n \in Lengths, first \in Rows, rest \in Rows, last \in Rows}
          \cup {[i \in 1..n |-> JObj(<<"name", "value">>, <<JStr("North"), JNum(1)>>)] :
                  n \in {100, 101}}
          \cup {[i \in 1..11 |-> IF i = k THEN JNull
                                 ELSE JObj(<<"name", "value">>, <<JStr("North"), JNum(1)>>)] :
                  k \in {1, 2, 11}}
      Configs == {NoConfig, NameValue, XY("region", "sales"), XY("month", "A")}
  IN /\ lastIndex = ZeroIndex
     /\ call \in {[made |-> FALSE, type |-> type, data |-> data, config |-> config] :
                    type \in {"bar", "line", "area", "pie", "scatter"},
                    data \in Series, config \in Configs}
     /\ revision = "part_006"
     /\ registry = UploadedRegistry
     /\ reqs = [r \in Requests |-> NewRequest]

Render ==
  /\ ~call.made
  /\ call' = [made |-> TRUE, type |-> call.type, data |-> call.data,
              config |-> call.config,
              chart |-> ConfigurableChart(call.type, call.data, call.config)]
  /\ UNCHANGED <<lastIndex, revision, registry, reqs>>

NextRender == Render

SpecRender == InitRender /\ [][NextRender]_vars

(***************************************************************************)
(* Uploads: parseCSVWithMetadata and persistDataset, run by concurrent      *)
(* requests.  A file that is being written reads as truncated; the         *)
(* truncated registry file fails JSON.parse, which both readers take as no *)
(* entries: it is the registry without entries.                            *)
(***************************************************************************)
\* number of upload requests in flight at the same time
NumUploads == 2

\* the last millisecond of the clock
MaxNow == 2

\* the dataset files: ds1 was uploaded before; no upload is running
InitUpload ==
  /\ lastIndex = ZeroIndex
  /\ call = [uploads |-> [u \in 1..NumUploads |->
                            [pc |-> "idle", datasetId |-> "", existing |-> None]],
             files |-> [ds1 |-> "written"],
             now |-> 1]
  /\ revision = "part_006"
  /\ registry = UploadedRegistry
  /\ reqs = [r \in Requests |-> NewRequest]

\* Date.now() moves on
Tick ==
  /\ call.now < MaxNow
  /\ call' = [call EXCEPT !.now = @ + 1]
  /\ UNCHANGED <<lastIndex, revision, registry, reqs>>

\* parseCSVWithMetadata up to the call of persistDataset: the datasetId is a
\* hash of the file name and of Date.now()
BeginUpload(u, name) ==
  /\ call.uploads[u].pc = "idle"
  /\ call' = [call EXCEPT !.uploads[u].pc = "writeCsv",
                          !.uploads[u].datasetId = name \o "@" \o ToString(call.now)]
  /\ UNCHANGED <<lastIndex, revision, registry, reqs>>

\* fs.writeFile(metadata.filePath, content) opens and truncates the file
OpenCsv(u) ==
  LET id == call.uploads[u].datasetId
  IN /\ call.uploads[u].pc = "writeCsv"
     /\ call' = [call EXCEPT
                   !.uploads[u].pc = "writingCsv",
                   !.files = [d \in DOMAIN call.files \cup {id} |->
                                IF d = id THEN "partial" ELSE call.files[d]]]
     /\ UNCHANGED <<lastIndex, revision, registry, reqs>>

\* fs.writeFile(metadata.filePath, content) resolves
CloseCsv(u) ==
  /\ call.uploads[u].pc = "writingCsv"
  /\ call' = [call EXCEPT !.uploads[u].pc = "readRegistry",
                          !.files[call.uploads[u].datasetId] = "written"]
  /\ UNCHANGED <<lastIndex, revision, registry, reqs>>

\* existing = JSON.parse(readFile(METADATA_FILE)), or {} when that raises
ReadRegistry(u) ==
  /\ call.uploads[u].pc = "readRegistry"
  /\ call' = [call EXCEPT !.uploads[u].pc = "writeRegistry",
                          !.uploads[u].existing = registry]
  /\ UNCHANGED <<lastIndex, revision, registry, reqs>>

\* fs.writeFile(METADATA_FILE, ...) opens and truncates the registry file
OpenRegistry(u) ==
  /\ call.uploads[u].pc = "writeRegistry"
  /\ call' = [call EXCEPT !.uploads[u].pc = "writingRegistry"]
  /\ registry' = [d \in {} |-> None]
  /\ UNCHANGED <<lastIndex, revision, reqs>>

\* existing[metadata.datasetId] = metadata is written; persistDataset and the
\* upload return
CloseRegistry(u) ==
  LET id == call.uploads[u].datasetId
      existing == call.uploads[u].existing
      metadata == [datasetId |-> id, filePath |-> "data/uploads/" \o id \o ".csv",
                   columns |-> <<[name |-> "region", type |-> "string"]>>]
  IN /\ call.uploads[u].pc = "writingRegistry"
     /\ call' = [call EXCEPT !.uploads[u].pc = "done"]
     /\ registry' = [d \in DOMAIN existing \cup {id} |->
                       IF d = id THEN metadata ELSE existing[d]]
     /\ UNCHANGED <<lastIndex, revision, reqs>>

NextUpload ==
  \/ Tick
  \/ \E u \in 1..NumUploads :
       \/ \E name \in {"sales.csv", "costs.csv"} : BeginUpload(u, name)
       \/ OpenCsv(u)
       \/ CloseCsv(u)
       \/ ReadRegistry(u)
       \/ OpenRegistry(u)
       \/ CloseRegistry(u)

SpecUpload == InitUpload /\ [][NextUpload]_vars

(***************************************************************************)
(* The chat page.  Its state is messages, input, isLoading and             *)
(* showProfiling; session is the datasetId that sessionStorage holds for   *)
(* the page ("" when the stored file has no metadata), and pending is the  *)
(* body of the fetch that has not settled yet.  The textarea and the send  *)
(* button are disabled while isLoading, and the suggested questions are    *)
(* rendered only while there is no message and the profiling card is gone. *)
(***************************************************************************)
\* the number of messages a visitor sends
MaxSends == 2

InitPage ==
  /\ lastIndex = ZeroIndex
  /\ call \in {[messages |-> <<>>, input |-> <<>>, isLoading |-> FALSE,
                showProfiling |-> TRUE, session |-> id, pending |-> None] :
                 id \in {"", "ds1"}}
  /\ revision = "part_006"
  /\ registry = UploadedRegistry
  /\ reqs = [r \in Requests |-> NewRequest]

\* the timer of the profiling card
ProfilingDone ==
  /\ call.showProfiling
  /\ call' = [call EXCEPT !.showProfiling = FALSE]
  /\ UNCHANGED <<lastIndex, revision, registry, reqs>>

\* onChange of the textarea
Type(text) ==
  /\ ~call.isLoading
  /\ call.input # text
  /\ call' = [call EXCEPT !.input = text]
  /\ UNCHANGED <<lastIndex, revision, registry, reqs>>

\* handleSendMessage up to the await of fetch
handleSendMessage(text) ==
  /\ Len(SelectSeq(call.messages, LAMBDA m : m.type = "user")) < MaxSends
  /\ IF Trim(text) = <<>>
     THEN UNCHANGED call
     ELSE call' = [call EXCEPT
            !.messages = Append(@, [type |-> "user", content |-> text, analysis |-> None]),
            !.input = <<>>,
            !.isLoading = TRUE,
            !.pending = [message |-> text, datasetId |-> call.session]]
  /\ UNCHANGED <<lastIndex, revision, registry, reqs>>

\* handleSendMessage from the settling of fetch on, without the message of
\* the catch block
SettleSilently(outcome) ==
  /\ call.pending # None
  /\ LET assistant(content, analysis) ==
           [type |-> "assistant", content |-> content, analysis |-> analysis]
         data == outcome.response
         appended ==
           IF outcome.kind = "rejects" \/ data.status \notin 200..299
             THEN <<>>
           ELSE IF "analysis" \in DOMAIN data
             THEN <<assistant(OrStr(data.analysis.summary,
                                    IF data.success THEN "Analysis completed"
                                    ELSE "Analysis failed"),
                              [analysis |-> data.analysis, success |-> data.success])>>
           ELSE IF ~data.success
             THEN <<assistant("The analysis failed. Please try refining your question or verifying column names.",
                              None)>>
           ELSE <<>>
     IN call' = [call EXCEPT !.messages = @ \o appended,
                             !.isLoading = FALSE,
                             !.pending = None]
  /\ UNCHANGED <<lastIndex, revision, registry, reqs>>

\* handleSendMessage from the settling of fetch on: outcome is a rejected
\* fetch or the response of the chat route
Settle(outcome) ==
  /\ call.pending # None
  /\ LET assistant(content, analysis) ==
           [type |-> "assistant", content |-> content, analysis |-> analysis]
         data == outcome.response
         appended ==
           IF outcome.kind = "rejects" \/ data.status \notin 200..299
             THEN <<assistant("Sorry, I encountered an error while processing your request.",
                              None)>>
           ELSE IF "analysis" \in DOMAIN data
             THEN <<assistant(OrStr(data.analysis.summary,
                                    IF data.success THEN "Analysis completed"
                                    ELSE "Analysis failed"),
                              [analysis |-> data.analysis, success |-> data.success])>>
           ELSE IF ~data.success
             THEN <<assistant("The analysis failed. Please try refining your question or verifying column names.",
                              None)>>
           ELSE <<>>
     IN call' = [call EXCEPT !.messages = @ \o appended,
                             !.isLoading = FALSE,
                             !.pending = None]
  /\ UNCHANGED <<lastIndex, revision, registry, reqs>>

\* the visitor types, presses Enter or the send button, or picks a suggested
\* question; the request is answered by the chat route or fails on the way
NextPage ==
  LET Texts == {<<>>, <<" ">>, <<"total", " ", "sales">>}
      Suggested == {<<"What", " ", "are", " ", "the", " ", "trends", "?">>}
      Executions == {executePythonCode(run) : run \in GuestRuns}
      NoSummary == [code |-> <<" ">>, summary |-> "", explanation |-> ""]
      Generations == {g \in LLMOutputs : g.summary = "Total sales"} \cup {NoSummary}
      \* the responses of POST for a request body
      Responses(body) ==
        IF body.message = <<>> \/ body.datasetId = ""
          THEN {BadRequest}
        ELSE IF getDatasetMetadata(registry, body.datasetId) = None
          THEN {NotFound}
        ELSE {InternalError}
          \cup {ValidationFailureResponse("part_006", g, EmptyCodeResult) :
                   g \in Generations}
          \cup {ExecutionFailureResponse("part_006", g, e) :
                   g \in Generations, e \in {x \in Executions : ~x.success}}
          \cup {PlainSuccessResponse(g, e) :
                   g \in Generations, e \in {x \in Executions : x.success}}
      Outcomes(body) ==
        {[kind |-> "rejects", response |-> None]}
        \cup {[kind |-> "responds", response |-> r] : r \in Responses(body)}
  IN \/ ProfilingDone
     \/ \E text \in Texts : Type(text)
     \/ (~call.isLoading /\ handleSendMessage(call.input))
     \/ \E q \in Suggested :
          /\ call.messages = <<>> /\ ~call.showProfiling
          /\ handleSendMessage(q)
     \/ (call.pending # None /\ \E outcome \in Outcomes(call.pending) : Settle(outcome))

SpecPage == InitPage /\ [][NextPage]_vars


(***************************************************************************)
(* Properties                                                              *)
(***************************************************************************)
Invalid(req) == req.sanitization # None /\ ~req.sanitization.isValid

\* C1: whenever sanitizeCode returned isValid = false for a request, the
\* executor was not invoked for it, and its response has success = false and
\* carries the original generated code and the validator's error list
C1_ValidationFailureHalts ==
  \A r \in Requests :
    Invalid(reqs[r]) =>
      /\ ~Includes(reqs[r].stages, "execute")
      /\ reqs[r].run = None
      /\ reqs[r].execution = None
      /\ reqs[r].pc = "responded"
      /\ reqs[r].response.status = 200
      /\ reqs[r].response.success = FALSE
      /\ reqs[r].response.analysis.pythonCode = reqs[r].generation.code
      /\ reqs[r].response.analysis.codeOutput.errors = reqs[r].sanitization.errors

\* a validation failure of a code text that trimming changes has been answered
C1_Witness ==
  \E r \in Requests :
    /\ Invalid(reqs[r])
    /\ reqs[r].pc = "responded"
    /\ reqs[r].generation.code # reqs[r].sanitization.sanitizedCode
    /\ reqs[r].sanitization.errors # <<>>

\* some pattern of the denylist matches somewhere in the code text
ContainsBlocked(code) ==
  \E p \in PatternIds : MatchesFrom(BLOCKED_PATTERNS[p], code, 1) # <<>>

\* C2: every sanitizeCode call on a code text that contains a denylisted
\* construct returns isValid = false, whatever calls were made before it
C2_BlockedCodeIsInvalid ==
  (call.made /\ ContainsBlocked(call.code)) => ~call.result.isValid

Sanitized(req) == req.sanitization # None

\* C3: two sanitizeCode calls with identical (code, availableColumns) return
\* identical SanitizationResult values
C3_SameInputSameResult ==
  \A r1, r2 \in Requests :
    (/\ Sanitized(reqs[r1])
     /\ Sanitized(reqs[r2])
     /\ reqs[r1].generation.code = reqs[r2].generation.code
     /\ ColumnNames(reqs[r1].metadata) = ColumnNames(reqs[r2].metadata))
    => reqs[r1].sanitization = reqs[r2].sanitization

\* C4: in every SanitizationResult, isValid is true exactly when the errors
\* list is empty; warnings alone never make it false
C4_ValidIffNoErrors ==
  call.made => (call.result.isValid <=> call.result.errors = <<>>)

\* a call returned warnings and no error
C4_Witness ==
  call.made /\ call.result.warnings # <<>> /\ call.result.errors = <<>>

\* the allowlisted module names
AllowedModules == {"pandas", "numpy", "json", "math", "pd", "np"}

\* token i begins a line, after indentation at most
AtLineStart(s, i) ==
  \E k \in 0..(i - 1) :
    /\ (k = 0 \/ s[k] = "\n")
    /\ \A j \in (k + 1)..(i - 1) : s[j] = " "

\* token j names a module in a Python import statement: the word after a
\* from that begins a line, or a word of the comma-separated list after an
\* import that begins a line
NamesModule(s, j) ==
  /\ IsWord(s[j])
  /\ \E i \in 1..(j - 1) :
       /\ AtLineStart(s, i)
       /\ \/ s[i] = "from" /\ IsSpace(s[i + 1]) /\ j = SkipSpace(s, i + 1)
          \/ /\ s[i] = "import"
             /\ IsSpace(s[i + 1])
             /\ \A k \in (i + 1)..(j - 1) : s[k] \in {" ", ","} \/ IsWord(s[k])
             /\ \A k \in (i + 1)..(j - 1) : s[k] # "as"
             /\ s[j] # "as"

ImportedModules(s) == {s[j] : j \in {k \in 1..Len(s) : NamesModule(s, k)}}

HasError(result, msg, arg) ==
  \E i \in 1..Len(result.errors) :
    result.errors[i].msg = msg /\ result.errors[i].arg = arg

\* C5: for every module named in an import or from-import statement that is
\* not allowlisted, the result has a Disallowed import error and is invalid
C5_ImportAllowlist ==
  call.made =>
    \A m \in ImportedModules(call.code) :
      m \notin AllowedModules =>
        HasError(call.result, "Disallowed import", m) /\ ~call.result.isValid

RECURSIVE Nested(_, _)
\* the brackets of s close in the order they were opened; stack holds the
\* closers still expected
Nested(s, stack) ==
  IF s = <<>> THEN stack = <<>>
  ELSE CASE Head(s) = "(" -> Nested(Tail(s), <<")">> \o stack)
         [] Head(s) = "[" -> Nested(Tail(s), <<"]">> \o stack)
         [] Head(s) = "{" -> Nested(Tail(s), <<"}">> \o stack)
         [] Head(s) \in {")", "]", "}"} ->
              stack # <<>> /\ Head(stack) = Head(s) /\ Nested(Tail(s), Tail(stack))
         [] OTHER -> Nested(Tail(s), stack)

\* C6: a non-empty code text with balanced brackets, only allowlisted
\* imports, no denylisted construct and the output pattern is valid
C6_CleanCodeIsValid ==
  (/\ call.made
   /\ Trim(call.code) # <<>>
   /\ Nested(call.code, <<>>)
   /\ ImportedModules(call.code) \subseteq AllowedModules
   /\ ~ContainsBlocked(call.code)
   /\ HasOutputPattern(call.code))
  => call.result.isValid

ExecutionFailed(req) == req.execution # None /\ ~req.execution.success

\* C7: whenever the executor returned success = false, no classification or
\* chart normalization was performed, and the response has success = false
\* and carries the generated code, the diagnostic and the elapsed time
C7_ExecutionFailureHalts ==
  \A r \in Requests :
    ExecutionFailed(reqs[r]) =>
      /\ ~Includes(reqs[r].stages, "classify")
      /\ ~Includes(reqs[r].stages, "normalize")
      /\ reqs[r].pc = "responded"
      /\ reqs[r].response.status = 200
      /\ reqs[r].response.success = FALSE
      /\ reqs[r].response.analysis.pythonCode = reqs[r].generation.code
      /\ reqs[r].response.analysis.codeOutput = reqs[r].execution.error
      /\ reqs[r].response.analysis.executionTime = reqs[r].execution.executionTime

\* a timed-out execution has been answered
C7_Witness ==
  \E r \in Requests :
    /\ ExecutionFailed(reqs[r])
    /\ reqs[r].run.kind = "timeout"
    /\ reqs[r].pc = "responded"
    /\ reqs[r].response.analysis.executionTime = TimeoutMs

\* C8: a request whose code raised an exception that the harness reported as
\* an {error: ...} document ends with a success = false response
C8_HarnessErrorEndsFailed ==
  \A r \in Requests :
    (reqs[r].run # None /\ reqs[r].run.kind = "raises" /\ reqs[r].pc = "responded")
    => (reqs[r].response.status = 200 /\ reqs[r].response.success = FALSE)

StageOrder == <<"generate", "validate", "execute", "classify", "normalize">>

IsPrefix(a, b) == Len(a) <= Len(b) /\ SubSeq(b, 1, Len(a)) = a

\* C9: the stages of a request run in the order generation, validation,
\* execution, classification, each at most once and each only after its
\* predecessor completed successfully
C9_StagesForwardOnce ==
  \A r \in Requests :
    /\ IsPrefix(reqs[r].stages, StageOrder)
    /\ Includes(reqs[r].stages, "validate") => reqs[r].generation # None
    /\ Includes(reqs[r].stages, "execute") =>
         (Sanitized(reqs[r]) /\ reqs[r].sanitization.isValid)
    /\ Includes(reqs[r].stages, "classify") =>
         (reqs[r].execution # None /\ reqs[r].execution.success)

\* one request ran every stage while another one failed in execution and was
\* answered without a second execution
C9_Witness ==
  \E r1, r2 \in Requests :
    /\ reqs[r1].stages = StageOrder
    /\ reqs[r1].pc = "responded"
    /\ ExecutionFailed(reqs[r2])
    /\ reqs[r2].pc = "responded"

\* C10: once the executor returned success = true, the request ends with a
\* success = true response, whatever JSON value the result is
C10_SuccessfulExecutionEndsDone ==
  \A r \in Requests :
    (reqs[r].execution # None /\ reqs[r].execution.success /\ reqs[r].pc = "responded")
    => (reqs[r].response.status = 200 /\ reqs[r].response.success = TRUE)


IsRecord(v) == v.t = "object"

AllNumbers(items) == \A i \in 1..Len(items) : items[i].t = "number"

\* the decision rules of the classifier leave the value to the final default
MatchedByNoRule(data) ==
  CASE data.t = "null" -> TRUE
    [] data.t = "object" ->
         /\ ~Includes(data.keys, "error")
         /\ data.keys # <<"value">>
         /\ ~(Len(data.keys) > 1 /\ AllNumbers(data.vals))
    [] data.t = "array" ->
         \/ data.items = <<>>
         \/ ~AllNumbers(data.items) /\ ~IsRecord(data.items[1])
    [] OTHER -> FALSE

\* C11: every call of recommendChart returns, without raising, a
\* recommendation whose chartType and confidence are among the listed ones,
\* and a value that no decision rule matches is table with low confidence
C11_ClassificationNeverFails ==
  (call.made /\ call.fn = "recommendChart") =>
    /\ ~call.chartRec.threw
    /\ call.chartRec.chartType \in ChartTypes
    /\ call.chartRec.confidence \in {"high", "medium", "low"}
    /\ MatchedByNoRule(call.data) =>
         call.chartRec.chartType = "table" /\ call.chartRec.confidence = "low"

IsScalar(v) == v.t \in {"number", "string", "boolean"}

\* C12: for a bare number, string or boolean and for a mapping whose only key
\* is value, recommendChart returns chartType number with confidence high
C12_ScalarIsNumber ==
  (/\ call.made
   /\ call.fn = "recommendChart"
   /\ IsScalar(call.data) \/ (IsRecord(call.data) /\ call.data.keys = <<"value">>)) =>
    /\ ~call.chartRec.threw
    /\ call.chartRec.chartType = "number"
    /\ call.chartRec.confidence = "high"

\* a mapping with more than one key, no error key and only numeric values
IsCategoryMap(data) ==
  /\ IsRecord(data)
  /\ ~Includes(data.keys, "error")
  /\ Len(data.keys) > 1
  /\ AllNumbers(data.vals)

HasDateLikeKey(data) == \E i \in 1..Len(data.keys) : MapDatePattern(data.keys[i])

\* C13: a mapping with more than one key, no error key and only numeric
\* values is recommended with confidence high as line when a key looks like a
\* date, else as pie when it has at most 6 keys, else as bar; a mapping with
\* an error key is table with confidence high whatever its values are
C13_NumericMapRules ==
  (call.made /\ call.fn = "recommendChart") =>
    /\ IsCategoryMap(call.data) =>
         /\ ~call.chartRec.threw
         /\ call.chartRec.confidence = "high"
         /\ call.chartRec.chartType =
              IF HasDateLikeKey(call.data) THEN "line"
              ELSE IF Len(call.data.keys) <= 6 THEN "pie" ELSE "bar"
    /\ (IsRecord(call.data) /\ Includes(call.data.keys, "error")) =>
         /\ ~call.chartRec.threw
         /\ call.chartRec.chartType = "table"
         /\ call.chartRec.confidence = "high"

\* a mapping of 7 numeric entries, one of them keyed by a month, is a line
C13_Witness ==
  /\ call.made
  /\ call.fn = "recommendChart"
  /\ IsCategoryMap(call.data)
  /\ Len(call.data.keys) = 7
  /\ HasDateLikeKey(call.data)
  /\ call.chartRec.chartType = "line"

\* a non-empty array whose elements are all records
IsRecordArray(data) ==
  /\ data.t = "array"
  /\ data.items # <<>>
  /\ \A i \in 1..Len(data.items) : IsRecord(data.items[i])

\* the columns are the keys of the first record
Columns(data) == data.items[1].keys

\* the values of column k in the records the classifier samples
ColumnSample(data, k) ==
  [i \in 1..(IF Len(data.items) < 10 THEN Len(data.items) ELSE 10) |->
     Get(data.items[i], k)]

IsNumeric(v) == v.t = "number" \/ (v.t = "string" /\ v.s \in NumericStrings)

NumericColumn(data, k) ==
  \A i \in DOMAIN ColumnSample(data, k) : IsNumeric(ColumnSample(data, k)[i])

DateLikeColumn(data, k) ==
  \E i \in DOMAIN ColumnSample(data, k) :
    LET v == ColumnSample(data, k)[i] IN v.t = "string" /\ RecordDatePattern(v.s)

NumericColumns(data) == SelectSeq(Columns(data), LAMBDA k : NumericColumn(data, k))

CategoryColumns(data) == SelectSeq(Columns(data), LAMBDA k : ~NumericColumn(data, k))

DateLikeColumns(data) == SelectSeq(Columns(data), LAMBDA k : DateLikeColumn(data, k))

ScatterRule(data) == Includes(Columns(data), "x") /\ Includes(Columns(data), "y")

LineRule(data) == DateLikeColumns(data) # <<>> /\ NumericColumns(data) # <<>>

BarRule(data) ==
  /\ CategoryColumns(data) # <<>>
  /\ NumericColumns(data) # <<>>
  /\ Len(data.items) <= 50

Answer(rec, chartType, confidence) ==
  ~rec.threw /\ rec.chartType = chartType /\ rec.confidence = confidence

AnswerXY(rec, chartType, confidence, xKey, yKey) ==
  /\ Answer(rec, chartType, confidence)
  /\ rec.config.xKey = xKey
  /\ rec.config.yKey = yKey

\* C14: for a non-empty array of records the first matching rule wins:
\* columns x and y give scatter/high; else a date-like column and a numeric
\* column give line/high on the first date-like column and the first numeric
\* column that is not date-like; else a category column, a numeric column and
\* at most 50 records give bar/high on the first category column and the
\* first numeric column
C14_RecordArrayRules ==
  (call.made /\ call.fn = "recommendChart" /\ IsRecordArray(call.data)) =>
    LET data == call.data
        rec == call.chartRec
    IN IF ScatterRule(data) THEN Answer(rec, "scatter", "high")
       ELSE IF LineRule(data)
       THEN AnswerXY(rec, "line", "high", DateLikeColumns(data)[1],
                     First(SelectSeq(NumericColumns(data),
                                     LAMBDA k : ~DateLikeColumn(data, k))))
       ELSE IF BarRule(data)
       THEN AnswerXY(rec, "bar", "high", CategoryColumns(data)[1],
                     NumericColumns(data)[1])
       ELSE TRUE

\* records with columns x and y whose x column holds dates are a scatter
C14_Witness ==
  /\ call.made
  /\ call.fn = "recommendChart"
  /\ IsRecordArray(call.data)
  /\ ScatterRule(call.data)
  /\ LineRule(call.data)
  /\ call.chartRec.chartType = "scatter"

\* C15: a record array that the scatter, line and high-confidence bar rules
\* do not match is table/medium when it has numeric columns and no category
\* column, else table/medium when it has more than 20 records or more than 4
\* columns, else bar/low when it has a category column, else table/low; a
\* non-empty array of bare numbers is line/medium
C15_RecordArrayFallThrough ==
  (call.made /\ call.fn = "recommendChart") =>
    LET data == call.data
        rec == call.chartRec
    IN /\ (/\ IsRecordArray(data)
           /\ ~ScatterRule(data) /\ ~LineRule(data) /\ ~BarRule(data)) =>
            IF CategoryColumns(data) = <<>> /\ NumericColumns(data) # <<>>
            THEN Answer(rec, "table", "medium")
            ELSE IF Len(data.items) > 20 \/ Len(Columns(data)) > 4
            THEN Answer(rec, "table", "medium")
            ELSE IF CategoryColumns(data) # <<>>
            THEN Answer(rec, "bar", "low")
            ELSE Answer(rec, "table", "low")
       /\ (data.t = "array" /\ data.items # <<>> /\ AllNumbers(data.items)) =>
            Answer(rec, "line", "medium")

\* more than 50 records with a category and a numeric column are a table
C15_Witness ==
  /\ call.made
  /\ call.fn = "recommendChart"
  /\ IsRecordArray(call.data)
  /\ Len(call.data.items) > 50
  /\ CategoryColumns(call.data) # <<>>
  /\ NumericColumns(call.data) # <<>>
  /\ Answer(call.chartRec, "table", "medium")

\* C16: for the three records of Scenario D recommendChart returns chartType
\* line, and normalizeDataForChart for the recommended chart type returns the
\* rows {month: "2024-01", A: 10, B: 20} and {month: "2024-02", A: 15} with
\* seriesKeys = ["A", "B"]
C16_ScenarioD ==
  (call.made /\ call.fn = "recommendChart" /\ call.data = ScenarioD) =>
    /\ ~call.chartRec.threw
    /\ call.chartRec.chartType = "line"
    /\ ~call.chartData.threw
    /\ ~call.chartData.isNull
    /\ call.chartData.data =
         <<JObj(<<"month", "A", "B">>, <<JStr("2024-01"), JNum(10), JNum(20)>>),
           JObj(<<"month", "A">>, <<JStr("2024-02"), JNum(15)>>)>>
    /\ call.chartData.seriesKeys = <<"A", "B">>

\* the chart type normalizeDataForChart was called with
CalledChartType ==
  IF call.fn = "recommendChart" THEN call.chartRec.chartType ELSE call.chartType

\* the x key, the category key and the value key of a record array: the
\* columns that are numeric in the first 5 records are value columns, the
\* others label columns; the x key is the first label column named like a
\* date, else the first label column; the category key the next label column
PivotKeys(data) ==
  LET keys == Columns(data)
      sample == Slice(data.items, 5)
      values == SelectSeq(keys, LAMBDA k : EveryNumeric(sample, k) = "true")
      labels == SelectSeq(keys, LAMBDA k : ~Includes(values, k))
      named == SelectSeq(labels, DateNamePattern)
      x == IF named # <<>> THEN named[1] ELSE First(labels)
  IN [x |-> x,
      category |-> First(SelectSeq(labels, LAMBDA k : k # x)),
      value |-> First(values)]

HasPivotKeys(data) ==
  /\ PivotKeys(data).x \notin {NoKey, ""}
  /\ PivotKeys(data).category \notin {NoKey, ""}
  /\ PivotKeys(data).value \notin {NoKey, ""}

RECURSIVE InOrderOfFirstAppearance(_)
\* the distinct members of a sequence, in order of first appearance
InOrderOfFirstAppearance(seq) ==
  IF seq = <<>> THEN <<>>
  ELSE LET before == InOrderOfFirstAppearance(SubSeq(seq, 1, Len(seq) - 1))
       IN IF Includes(before, seq[Len(seq)]) THEN before
          ELSE Append(before, seq[Len(seq)])

XValues(data) ==
  [i \in 1..Len(data.items) |-> ToStr(Get(data.items[i], PivotKeys(data).x))]

CategoryValues(data) ==
  [i \in 1..Len(data.items) |-> ToStr(Get(data.items[i], PivotKeys(data).category))]

\* the input rows that have the pair (x, c)
RowsWith(data, x, c) ==
  {i \in 1..Len(data.items) : XValues(data)[i] = x /\ CategoryValues(data)[i] = c}

Last(S) == CHOOSE i \in S : \A j \in S : j <= i

IsPivotCall ==
  /\ call.made
  /\ IsRecordArray(call.data)
  /\ call.fn = "recommendChart" => ~call.chartRec.threw
  /\ CalledChartType \in {"bar", "line", "area"}
  /\ HasPivotKeys(call.data)

\* C17: for chart type bar, line or area and a record array with an x key, a
\* category key and a value key, normalizeDataForChart returns one row per
\* distinct x value in order of first appearance; the row of x holds, for each
\* category c occurring with x, the value of the last input row with the pair
\* (x, c), and no field of another category; seriesKeys is the list of the
\* distinct category values in order of first appearance
C17_PivotLastWriteWins ==
  IsPivotCall =>
    LET data == call.data
        out == call.chartData
        xs == InOrderOfFirstAppearance(XValues(data))
    IN /\ ~out.threw
       /\ ~out.isNull
       /\ out.xKey = PivotKeys(data).x
       /\ Len(out.data) = Len(xs)
       /\ \A i \in 1..Len(xs) :
            /\ \A r \in 1..Len(data.items) :
                 XValues(data)[r] = xs[i] =>
                   Get(out.data[i], CategoryValues(data)[r]) =
                     Get(data.items[Last(RowsWith(data, xs[i], CategoryValues(data)[r]))],
                         PivotKeys(data).value)
            /\ \A k \in 1..Len(out.data[i].keys) :
                 \/ out.data[i].keys[k] = out.xKey
                 \/ RowsWith(data, xs[i], out.data[i].keys[k]) # {}
       /\ out.seriesKeys = InOrderOfFirstAppearance(CategoryValues(data))

\* two input rows have the same x and the same category and different
\* values, and the pivoted row holds the value of the later one
C17_Witness ==
  /\ IsPivotCall
  /\ CalledChartType = "area"
  /\ \E r1, r2 \in 1..Len(call.data.items) :
       /\ r1 < r2
       /\ XValues(call.data)[r1] = XValues(call.data)[r2]
       /\ CategoryValues(call.data)[r1] = CategoryValues(call.data)[r2]
       /\ Get(call.data.items[r1], PivotKeys(call.data).value)
            # Get(call.data.items[r2], PivotKeys(call.data).value)
       /\ Get(call.chartData.data[1], CategoryValues(call.data)[r2])
            = Get(call.data.items[r2], PivotKeys(call.data).value)

RECURSIVE Depths(_, _, _, _)
\* the nesting depths of one bracket kind after each token of s, from depth d
Depths(s, open, close, d) ==
  IF s = <<>> THEN <<d>>
  ELSE <<d>> \o Depths(Tail(s), open, close,
                       CASE Head(s) = open -> d + 1
                         [] Head(s) = close -> d - 1
                         [] OTHER -> d)

\* a closer of the kind comes before its opener, or an opener is never closed
Unbalanced(s, open, close) ==
  LET depths == Depths(s, open, close, 0)
  IN depths[Len(depths)] # 0 \/ \E i \in 1..Len(depths) : depths[i] < 0

HasWarning(result, msg, arg) ==
  \E i \in 1..Len(result.warnings) :
    result.warnings[i].msg = msg /\ result.warnings[i].arg = arg

\* C18: when the parentheses, the square brackets or the braces of the
\* generated code are not balanced, the SanitizationResult has an error or a
\* warning that names the unbalanced kind
C18_ImbalanceIsSurfaced ==
  \A r \in Requests :
    reqs[r].sanitization # None =>
      \A b \in 1..Len(balanceChecks) :
        Unbalanced(Trim(reqs[r].generation.code),
                   balanceChecks[b].open, balanceChecks[b].close) =>
          \/ HasWarning(reqs[r].sanitization, "Unbalanced", balanceChecks[b].name)
          \/ HasError(reqs[r].sanitization, "Unbalanced", balanceChecks[b].name)

\* the position of the first statement that raises, 0 when none does
FirstRaise(program) ==
  IF \E i \in 1..Len(program) : program[i].op = "raise"
  THEN CHOOSE i \in 1..Len(program) :
         /\ program[i].op = "raise"
         /\ \A j \in 1..(i - 1) : program[j].op # "raise"
  ELSE 0

\* the error text of an exception, by the first category it belongs to
ClassifiedError(exc, columns) ==
  IF IsInstance(exc, "KeyError")
  THEN "Column not found: " \o Message(exc) \o ". Available: " \o PyList(columns)
  ELSE IF IsInstance(exc, "TypeError") THEN "Type error: " \o Message(exc)
  ELSE IF IsInstance(exc, "ValueError") THEN "Value error: " \o Message(exc)
  ELSE exc \o ": " \o Message(exc)

IsErrorDocument(line) == line.t = "object" /\ line.keys = <<"error">>

\* C19: an exception raised by the wrapped code does not crash the process
\* and puts exactly one {error: ...} document on standard output, with the
\* text of its category; and a run that exits normally has exactly one
\* well-formed JSON document on standard output
C19_HarnessCatchesAll ==
  call.made =>
    LET exit == call.exit
        at == FirstRaise(call.program)
    IN /\ at # 0 =>
            /\ exit.status = 0
            /\ ~exit.traceback
            /\ SelectSeq(exit.stdout, IsErrorDocument) =
                 <<JObj(<<"error">>,
                        <<JStr(ClassifiedError(call.program[at].exc,
                                               call.availableColumns))>>)>>
       /\ exit.status = 0 =>
            Len(exit.stdout) = 1 /\ exit.stdout[1] # RawText
\* C20: generatePythonCode falls back to the heuristic extraction only for an
\* answer that the lenient repair passes (fence stripping, outermost-brace
\* extraction, Python literals, trailing commas, single quotes) cannot turn
\* into a JSON envelope with a summary and a code
Repairable(content) == HasSummaryAndCode(JSONparse(sanitizeJsonString(content)))

C20_RepairBeforeFallback ==
  (call.made /\ "generation" \in DOMAIN call /\ ~call.generation.threw
     /\ call.generation.path = "fallback")
    => ~Repairable(call.content)


RECURSIVE ValueSum(_, _, _)
\* the sum of the numeric values of column k in the entries from the i-th on
ValueSum(data, k, i) ==
  IF i > Len(data) THEN 0
  ELSE (LET v == Get(data[i], k)
        IN CASE v.t = "number" -> v.n
             [] v.t = "string" /\ v.s \in NumericStrings /\ v.s # "" ->
                  (CHOOSE n \in Numbers \cup {2024} : ToString(n) = v.s)
             [] OTHER -> 0)
       + ValueSum(data, k, i + 1)

\* a pie or bar chart of a series of records has been rendered
CappedChart ==
  /\ call.made
  /\ "chart" \in DOMAIN call
  /\ call.type \in {"pie", "bar"}
  /\ call.data # <<>>
  /\ \A i \in 1..Len(call.data) : call.data[i].t = "object"

Cap == IF call.type = "pie" THEN 10 ELSE 30

\* C21: a pie or bar series longer than the cap (10 for pie, 30 for bar) is
\* rendered as its first cap - 1 entries followed by one entry "Other" whose
\* value, in the value column of the chart, is the sum of the numeric values
\* of the remaining entries; a series no longer than the cap is rendered
\* unchanged
C21_CapPolicy ==
  CappedChart =>
    /\ ~call.chart.threw
    /\ call.chart.rendered
    /\ LET shown == call.chart.chartData
           yKey == call.chart.yKey
       IN IF Len(call.data) <= Cap THEN shown = call.data
          ELSE /\ Len(shown) = Cap
               /\ SubSeq(shown, 1, Cap - 1) = SubSeq(call.data, 1, Cap - 1)
               /\ \E k \in DOMAIN shown[Cap].keys :
                    shown[Cap].vals[k] = JStr("Other")
               /\ Get(shown[Cap], yKey) = JNum(ValueSum(call.data, yKey, Cap))


\* C22: no step of a chat request, on any path, changes the dataset registry
C22_PipelineNeverWritesRegistry == [][registry' = registry]_vars

\* one request was answered with 404 and another with success
C22_Witness ==
  /\ registry = UploadedRegistry
  /\ \E r1, r2 \in Requests :
       /\ reqs[r1].response = NotFound
       /\ reqs[r2].pc = "responded"
       /\ reqs[r2].execution # None
       /\ reqs[r2].execution.success

\* the executor has been called for the request
HandedToExecutor(req) == req.pc = "EXECUTING" \/ req.execution # None

\* C23: the code handed to the executor is the sanitizedCode of the valid
\* SanitizationResult of the same request, which is the generated code trimmed
C23_ExecutorGetsValidatedCode ==
  \A r \in Requests :
    HandedToExecutor(reqs[r]) =>
      /\ reqs[r].executorArgs # None
      /\ reqs[r].sanitization # None
      /\ reqs[r].sanitization.isValid
      /\ reqs[r].executorArgs.code = reqs[r].sanitization.sanitizedCode
      /\ reqs[r].executorArgs.code = Trim(reqs[r].generation.code)

\* the executor was called with code that differs from the generated text
C23_Witness ==
  \E r \in Requests :
    /\ HandedToExecutor(reqs[r])
    /\ reqs[r].executorArgs.code # reqs[r].generation.code

\* neither code generation nor validation nor execution ran for the request
NothingInvoked(req) ==
  /\ req.stages = <<>>
  /\ req.generation = None
  /\ req.sanitization = None
  /\ req.executorArgs = None
  /\ req.execution = None

C27_PivotKeepsXField ==
  (IsPivotCall /\ ~call.chartData.threw /\ ~call.chartData.isNull) =>
    LET out == call.chartData
        xs == InOrderOfFirstAppearance(XValues(call.data))
    IN \A i \in 1..Len(out.data) : Get(out.data[i], out.xKey) = JStr(xs[i])


\* C28: normalizeDataForChart returns, for every JSON value and every chart
\* type, without raising, null or a structure {data, xKey, yKey, seriesKeys?};
\* for error mappings, single-key value mappings and scalars it returns null
C28_NormalizeIsTotal ==
  (call.made /\ call.fn = "normalizeDataForChart") =>
    /\ ~call.chartData.threw
    /\ (\/ IsScalar(call.data)
        \/ (IsRecord(call.data) /\ Includes(call.data.keys, "error"))
        \/ (IsRecord(call.data) /\ call.data.keys = <<"value">>))
         => call.chartData.isNull


\* the answer after fence stripping, parsed as JSON
ParsedAnswer(content) ==
  JSONparse(IF FenceMatch(content, "json").found
            THEN Trim(FenceMatch(content, "json").capture)
            ELSE Trim(content))

\* the answer parses as a JSON object with a non-empty code field
HasParsedCode(content) ==
  /\ ParsedAnswer(content).ok
  /\ ParsedAnswer(content).val.t = "object"
  /\ Get(ParsedAnswer(content).val, <<"code">>).t = "string"
  /\ Get(ParsedAnswer(content).val, <<"code">>).s # <<>>

\* C29: when the answer, after fence stripping, parses as JSON and has a
\* non-empty code field, generatePythonCode returns that field as the code,
\* also when summary is missing
C29_ParsedCodeIsReturned ==
  (call.made /\ "generation" \in DOMAIN call /\ HasParsedCode(call.content)) =>
    /\ ~call.generation.threw
    /\ call.generation.code = Get(ParsedAnswer(call.content).val, <<"code">>)


\* every upload has returned
UploadsDone == \A u \in DOMAIN call.uploads : call.uploads[u].pc = "done"

\* C24: once all concurrent uploads have returned, getDatasetMetadata returns
\* a record for the datasetId of every one of them
C24_NoUploadIsLost ==
  UploadsDone =>
    \A u \in DOMAIN call.uploads :
      getDatasetMetadata(registry, call.uploads[u].datasetId) # None

\* C25: whenever getDatasetMetadata returns a record for a datasetId, the
\* dataset file of that record has been completely written
C25_FileBeforeRegistry ==
  \A id \in DOMAIN call.files :
    getDatasetMetadata(registry, id) # None => call.files[id] = "written"


\* C30: on the chat page every send of a non-blank message appends exactly
\* one user message and starts one request; the settling of the request
\* appends exactly one assistant message; no other step changes the messages;
\* isLoading is true exactly while a request is in flight
C30_OneAnswerPerSend ==
  [][/\ (call.pending = None /\ call'.pending # None) =>
         /\ call'.messages = Append(call.messages,
               [type |-> "user", content |-> call'.pending.message, analysis |-> None])
         /\ Trim(call'.pending.message) # <<>>
     /\ (call.pending # None /\ call'.pending = None) =>
         /\ Len(call'.messages) = Len(call.messages) + 1
         /\ SubSeq(call'.messages, 1, Len(call.messages)) = call.messages
         /\ call'.messages[Len(call'.messages)].type = "assistant"
     /\ ((call.pending = None) = (call'.pending = None)) =>
         call'.messages = call.messages
     /\ call'.isLoading = (call'.pending # None)]_vars

\* a request with a dataset has failed on the way and a second one was
\* answered with an analysis
C30_Witness ==
  /\ call.pending = None /\ ~call.isLoading
  /\ Len(call.messages) = 4
  /\ call.messages[1].type = "user" /\ call.messages[2].type = "assistant"
  /\ call.messages[2].analysis = None
  /\ call.messages[3].type = "user" /\ call.messages[4].type = "assistant"
  /\ call.messages[4].analysis # None


====
